---- MODULE Spec2Model ----
(***************************************************************************)
(* LLM Snakes: the N-player trail game of llama-snakes.                    *)
(*                                                                         *)
(* The model follows the N-player program (InitGame, PlayGame,             *)
(* GetValidMoves, IsValidMove, MakeMove, GetLLMMove, ParseDirection).      *)
(* The text-generation endpoint (CallLLM) and math/rand are the            *)
(* environment: every answer and every sample they can give is a           *)
(* nondeterministic choice.                                                *)
(*                                                                         *)
(* Strings that the program inspects character by character (the oracle's  *)
(* response) are sequences of one-character strings.  Positions are        *)
(* <<row, col>> pairs, 0-based as in the program.  currentPlayerIndex is   *)
(* 0-based as in the program; PlayerIDs is a 1-based TLA+ sequence, so the *)
(* program's PlayerIDs[i] is PlayerIDs[i + 1] here.                        *)
(***************************************************************************)
EXTENDS Integers, Sequences, FiniteSets, TLC

(***************************************************************************)
(* Bounds of the model.                                                    *)
(***************************************************************************)
\* -size is drawn from 1..MaxSize
MaxSize == 3
\* -players is drawn from 2..MaxPlayers
MaxPlayers == 3
\* -retries is drawn from 0..MaxRetriesFlag
MaxRetriesFlag == 2
\* the endpoint answers until MaxMoves moves have been made in one game and
\* fails from then on (8 moves fill a 3x3 board)
MaxMoves == 8
\* the endpoint answers anything but the bare name of a valid move only while
\* fewer than FaultBefore moves have been made in the game; it may fail at
\* any call
FaultBefore == 1
\* a parser input is the concatenation of at most MaxTokens tokens
MaxTokens == 3
\* -games is drawn from 0..MaxGames in a run of several games; a run with
\* -games 0 (no limit) is interrupted after MaxGames games
MaxGames == 2
\* -size is drawn from 1..MaxRunSize in a run of several games
MaxRunSize == 2
\* -size is drawn from 1..MaxEvalSize where BuildPrompt is checked on its own
MaxEvalSize == 3
\* the territory of an evaluation is drawn from 0..MaxTerritory where
\* determineSafetyLevel is checked on its own
MaxTerritory == 25
\* the statistics before a game hold up to MaxWins wins for each player and
\* up to MaxWins errors where main's update is checked on its own
MaxWins == 2

(***************************************************************************)
(* Program constants.                                                      *)
(***************************************************************************)
Empty == " "

PlayerIDs == <<"1", "2", "3", "4", "5", "6", "7", "8", "9", "A">>

\* the program's trail characters are ten distinct block-drawing glyphs,
\* none of which is a player id or Empty; they are named here
TrailChars == <<"trail1", "trail2", "trail3", "trail4", "trail5",
                "trail6", "trail7", "trail8", "trail9", "trailA">>

Up == "up"
Down == "down"
Left == "left"
Right == "right"

\* the order in which GetValidMoves and getBlockedMoves enumerate directions
AllDirs == <<Up, Down, Left, Right>>

Direction == {Up, Down, Left, Right}

\* the value PlayGame returns for a draw, and for a failed oracle
Draw == ""
ErrorResult == "error"
\* PlayGame has not returned yet
Pending == "pending"

\* ParseDirection's err: nil, or one of its two errors
Nil == "nil"
\* the err of CallLLM when the request or the decoding of the answer fails
ErrTransport == "transport"
ErrNotValid == "direction is not valid"
ErrNoParse == "could not parse direction from response"

VARIABLES
    gridSize,            \* flag -size
    numPlayers,          \* flag -players
    maxRetries,          \* flag -retries
    Grid,                \* game.Grid: cell -> marker
    PlayerPos,           \* game.PlayerPos: player id -> position
    ActivePlayers,       \* game.ActivePlayers: player id -> BOOLEAN
    Moves,               \* game.Moves: the move log
    Visited,             \* game.Visited: the set of positions mapped to true
    currentPlayerIndex,  \* PlayGame's rotation index (0-based)
    moveCount,           \* PlayGame's turn counter
    validMoves,          \* PlayGame's validMoves of the turn in progress
    pc,                  \* where the program is: "main", "loop", "llm", "done", "exit";
                         \* and for a function on its own, before and after its call
    result,              \* PlayGame's return value
    retry,               \* GetLLMMove's loop counter = oracle calls made this turn
    prompt,              \* GetLLMMove's prompt, as the invalid responses appended to it
    response,            \* the oracle's last response
    parsed,              \* ParseDirection's last return value: [dir, err]
    owners,              \* history: cell -> the players whose head or trail marker was ever on it
    exhausted,           \* history: the players InitGame placed after all maxAttempts samples failed
    numGames,            \* flag -games
    gameCount,           \* main's gameCount
    stats,               \* main's stats: [PlayerWins, Errors, TotalGames]
    calls,               \* history: the calls of CallLLM made in the turn in progress
    llmErr,              \* the err of the last call of CallLLM
    evaluations,         \* BuildPrompt's evaluations slice
    blocked              \* BuildPrompt's blockedMoves map

vars == <<gridSize, numPlayers, maxRetries, Grid, PlayerPos, ActivePlayers, Moves,
          Visited, currentPlayerIndex, moveCount, validMoves, pc, result, retry,
          prompt, response, parsed, owners, exhausted, numGames, gameCount, stats,
          calls, llmErr, evaluations, blocked>>

config == <<gridSize, numPlayers, maxRetries, numGames>>
board == <<Grid, PlayerPos, Moves, Visited, owners>>
llm == <<retry, prompt, response, parsed>>
oracle == <<calls, llmErr>>
run == <<gameCount, stats>>
analysis == <<evaluations, blocked>>

(***************************************************************************)
(* Geometry.                                                               *)
(***************************************************************************)
Cells(size) == (0 .. size - 1) \X (0 .. size - 1)

abs(x) == IF x < 0 THEN -x ELSE x

getNewPosition(pos, dir) ==
    CASE dir = Up -> <<pos[1] - 1, pos[2]>>
      [] dir = Down -> <<pos[1] + 1, pos[2]>>
      [] dir = Left -> <<pos[1], pos[2] - 1>>
      [] dir = Right -> <<pos[1], pos[2] + 1>>
      [] OTHER -> pos

\* IsValidMove without its test of game.Visited
IsValidMoveBoundsOnly(size, visited, pos) ==
    ~(pos[1] < 0 \/ pos[1] >= size \/ pos[2] < 0 \/ pos[2] >= size)

IsValidMove(size, visited, pos) ==
    IF pos[1] < 0 \/ pos[1] >= size \/ pos[2] < 0 \/ pos[2] >= size
    THEN FALSE
    ELSE IF pos \in visited THEN FALSE ELSE TRUE

\* GetValidMoves that lists the directions in the order Right, Left, Down, Up
GetValidMovesReversed(size, visited, currentPos) ==
    SelectSeq(<<Right, Left, Down, Up>>,
              LAMBDA d : IsValidMove(size, visited, getNewPosition(currentPos, d)))

\* the valid directions from currentPos, in the order Up, Down, Left, Right
GetValidMoves(size, visited, currentPos) ==
    SelectSeq(AllDirs, LAMBDA d : IsValidMove(size, visited, getNewPosition(currentPos, d)))

Players == {PlayerIDs[i] : i \in 1 .. numPlayers}

PlayerIndex(player) == CHOOSE i \in 1 .. Len(PlayerIDs) : PlayerIDs[i] = player

(***************************************************************************)
(* Strings and ParseDirection.                                             *)
(***************************************************************************)
Str(dir) ==
    CASE dir = Up -> <<"u", "p">>
      [] dir = Down -> <<"d", "o", "w", "n">>
      [] dir = Left -> <<"l", "e", "f", "t">>
      [] dir = Right -> <<"r", "i", "g", "h", "t">>
      [] OTHER -> <<>>

UpperCase == <<"A", "B", "C", "D", "E", "F", "G", "H", "I", "J", "K", "L", "M",
               "N", "O", "P", "Q", "R", "S", "T", "U", "V", "W", "X", "Y", "Z">>
LowerCase == <<"a", "b", "c", "d", "e", "f", "g", "h", "i", "j", "k", "l", "m",
               "n", "o", "p", "q", "r", "s", "t", "u", "v", "w", "x", "y", "z">>
Digits == {"0", "1", "2", "3", "4", "5", "6", "7", "8", "9"}

UpperChars == {UpperCase[i] : i \in DOMAIN UpperCase}

\* [0-9A-Za-z_]
WordChars == UpperChars \cup {LowerCase[i] : i \in DOMAIN LowerCase} \cup Digits \cup {"_"}

\* strings.ToLower on one character
ToLowerChar(c) ==
    IF c \in UpperChars
    THEN LowerCase[CHOOSE i \in DOMAIN UpperCase : UpperCase[i] = c]
    ELSE c

ToLower(s) == [i \in DOMAIN s |-> ToLowerChar(s[i])]

IsSpace(c) == c \in {" ", "\t", "\n", "\r"}

\* strings.TrimSpace: drop the leading and the trailing white space
TrimSpace(s) ==
    LET keep == {i \in DOMAIN s : ~IsSpace(s[i])}
    IN  IF keep = {} THEN <<>>
        ELSE LET first == CHOOSE i \in keep : \A j \in keep : i <= j
                 last == CHOOSE i \in keep : \A j \in keep : j <= i
             IN  SubSeq(s, first, last)

\* \w with the hyphen taken for a word character
IsWordCharHyphen(c) == c \in WordChars \cup {"-"}

\* the regexp class \w
IsWordChar(c) == c \in WordChars

\* the regexp assertion \b between s[k - 1] and s[k]
WordBoundary(s, k) ==
    LET before == k - 1 \in DOMAIN s /\ IsWordChar(s[k - 1])
        after == k \in DOMAIN s /\ IsWordChar(s[k])
    IN  before # after

\* \b(word)\b matches s at index i
MatchAt(s, i, word) ==
    /\ i + Len(word) - 1 <= Len(s)
    /\ SubSeq(s, i, i + Len(word) - 1) = word
    /\ WordBoundary(s, i)
    /\ WordBoundary(s, i + Len(word))

\* the alternatives of the pattern \b(up|down|left|right)\b, in its order
PatternDirs == <<Up, Down, Left, Right>>

\* regexp FindStringSubmatch: the leftmost match, and at one index the first
\* alternative that matches; <<>> when there is none, else <<matches[1]>>
RECURSIVE FindFrom(_, _)
FindFrom(s, i) ==
    IF i > Len(s) THEN <<>>
    ELSE LET hits == {k \in DOMAIN PatternDirs : MatchAt(s, i, Str(PatternDirs[k]))}
         IN  IF hits # {}
             THEN <<PatternDirs[CHOOSE k \in hits : \A j \in hits : k <= j]>>
             ELSE FindFrom(s, i + 1)

FindStringSubmatch(s) == FindFrom(s, 1)

\* the first element of moves equal to what, as the loops of ParseDirection find it
Contains(moves, what) == \E i \in DOMAIN moves : moves[i] = what

\* ParseDirection that passes over a standalone word that is not a valid move
\* and takes the first one that is
RECURSIVE FindLegalFrom(_, _, _)
FindLegalFrom(s, i, moves) ==
    IF i > Len(s) THEN <<>>
    ELSE LET hits == {k \in DOMAIN PatternDirs :
                        /\ MatchAt(s, i, Str(PatternDirs[k]))
                        /\ Contains(moves, PatternDirs[k])}
         IN  IF hits # {}
             THEN <<PatternDirs[CHOOSE k \in hits : \A j \in hits : k <= j]>>
             ELSE FindLegalFrom(s, i + 1, moves)

ParseDirectionFirstLegal(resp, moves) ==
    LET r == ToLower(TrimSpace(resp))
        exact == {i \in DOMAIN moves : r = Str(moves[i])}
        matches == FindLegalFrom(r, 1, moves)
    IN  IF exact # {}
        THEN [dir |-> moves[CHOOSE i \in exact : \A j \in exact : i <= j], err |-> Nil]
        ELSE IF Len(matches) > 0
             THEN [dir |-> matches[1], err |-> Nil]
             ELSE [dir |-> "", err |-> ErrNoParse]

ParseDirection(resp, moves) ==
    LET r == ToLower(TrimSpace(resp))
        exact == {i \in DOMAIN moves : r = Str(moves[i])}
        matches == FindStringSubmatch(r)
    IN  IF exact # {}
        THEN [dir |-> moves[CHOOSE i \in exact : \A j \in exact : i <= j], err |-> Nil]
        ELSE IF Len(matches) > 0
             THEN IF Contains(moves, matches[1])
                  THEN [dir |-> matches[1], err |-> Nil]
                  ELSE [dir |-> "", err |-> ErrNotValid]
             ELSE [dir |-> "", err |-> ErrNoParse]

NoParse == [dir |-> "", err |-> Nil]

(***************************************************************************)
(* main's loop over the games, and InitGame.                               *)
(***************************************************************************)
\* the test at the top of main's loop that ends the run
GamesPlayed(games, count) == games > 0 /\ count >= games

\* the spacing test of InitGame against the players placed so far
TooClose(pos, existing) ==
    \E e \in existing : abs(pos[1] - e[1]) + abs(pos[2] - e[2]) < 3

\* What the attempt loop of InitGame leaves in pos for one player: a sample
\* that is not too close (the loop breaks on it), or, when every one of the
\* maxAttempts samples was too close, the last sample, which is too close.
PlaceOutcomes(size, existing) ==
    {[pos |-> p, exhausted |-> FALSE] : p \in {q \in Cells(size) : ~TooClose(q, existing)}}
    \cup
    {[pos |-> p, exhausted |-> TRUE] : p \in {q \in Cells(size) : TooClose(q, existing)}}

\* the placements of players 1..n, each against the players placed before it
RECURSIVE Placements(_, _)
Placements(size, n) ==
    IF n = 0 THEN {<<>>}
    ELSE UNION {{Append(ps, o) : o \in PlaceOutcomes(size, {ps[i].pos : i \in DOMAIN ps})} :
                ps \in Placements(size, n - 1)}

\* the last player placed on cell c, 0 when there is none
LastOn(ps, c) ==
    LET on == {i \in DOMAIN ps : ps[i].pos = c}
    IN  IF on = {} THEN 0 ELSE CHOOSE i \in on : \A j \in on : j <= i

InitGame ==
    /\ pc = "main"
    /\ ~GamesPlayed(numGames, gameCount)
    /\ gameCount < MaxGames
    /\ gameCount' = gameCount + 1
    /\ \E ps \in Placements(gridSize, numPlayers) :
          /\ Grid' = [c \in Cells(gridSize) |->
                        IF LastOn(ps, c) = 0 THEN Empty ELSE PlayerIDs[LastOn(ps, c)]]
          /\ PlayerPos' = [p \in Players |-> ps[PlayerIndex(p)].pos]
          /\ Visited' = {ps[i].pos : i \in DOMAIN ps}
          /\ owners' = [c \in Cells(gridSize) |->
                          {PlayerIDs[i] : i \in {j \in DOMAIN ps : ps[j].pos = c}}]
          /\ exhausted' = {PlayerIDs[i] : i \in {j \in DOMAIN ps : ps[j].exhausted}}
    /\ ActivePlayers' = [p \in Players |-> TRUE]
    /\ Moves' = <<>>
    /\ currentPlayerIndex' = 0
    /\ moveCount' = 0
    /\ result' = Pending
    /\ pc' = "loop"
    /\ UNCHANGED <<config, validMoves, llm, oracle, stats, analysis>>

(***************************************************************************)
(* PlayGame: the top of the loop.                                          *)
(***************************************************************************)
\* the scan for the next active player that steps backwards through the slots
RECURSIVE FindNextActiveBackwards(_, _, _, _)
FindNextActiveBackwards(active, n, index, attempts) ==
    IF attempts >= n THEN index
    ELSE IF active[PlayerIDs[index + 1]] THEN index
         ELSE FindNextActiveBackwards(active, n, (index + n - 1) % n, attempts + 1)

\* the scan for the next active player: at most numPlayers slots
RECURSIVE FindNextActive(_, _, _, _)
FindNextActive(active, n, index, attempts) ==
    IF attempts >= n THEN index
    ELSE IF active[PlayerIDs[index + 1]] THEN index
         ELSE FindNextActive(active, n, (index + 1) % n, attempts + 1)

ActiveCount(active, n) == Cardinality({i \in 1 .. n : active[PlayerIDs[i]]})

\* the last active player in id order; "" when there is none
LastActivePlayer(active, n) ==
    LET on == {i \in 1 .. n : active[PlayerIDs[i]]}
    IN  IF on = {} THEN "" ELSE PlayerIDs[CHOOSE i \in on : \A j \in on : j <= i]

\* the game ends only when nobody is left
GameOverNone(activeCount) == activeCount < 1

\* the test that ends the game
GameOver(activeCount) == activeCount <= 1

\* a player with a single valid move is eliminated too
NoValidMovesOrOne(moves) == Len(moves) <= 1

\* the test that eliminates the current player
NoValidMoves(moves) == Len(moves) = 0

NextIndex == FindNextActive(ActivePlayers, numPlayers, currentPlayerIndex, 0)

CurrentPlayer == PlayerIDs[NextIndex + 1]

CurrentValidMoves == GetValidMoves(gridSize, Visited, PlayerPos[CurrentPlayer])

\* one active player or none: PlayGame returns the winner or the draw
Finish ==
    /\ pc = "loop"
    /\ GameOver(ActiveCount(ActivePlayers, numPlayers))
    /\ result' = IF ActiveCount(ActivePlayers, numPlayers) = 1
                 THEN LastActivePlayer(ActivePlayers, numPlayers)
                 ELSE Draw
    /\ currentPlayerIndex' = NextIndex
    /\ pc' = "done"
    /\ UNCHANGED <<config, board, ActivePlayers, moveCount, validMoves, llm, exhausted,
                   oracle, run, analysis>>

\* an elimination that also takes the player's head marker off the board
EliminateClearsHead ==
    /\ pc = "loop"
    /\ ~GameOver(ActiveCount(ActivePlayers, numPlayers))
    /\ NoValidMoves(CurrentValidMoves)
    /\ moveCount' = moveCount + 1
    /\ validMoves' = CurrentValidMoves
    /\ ActivePlayers' = [ActivePlayers EXCEPT ![CurrentPlayer] = FALSE]
    /\ currentPlayerIndex' = (NextIndex + 1) % numPlayers
    /\ Grid' = [Grid EXCEPT ![PlayerPos[CurrentPlayer]] = Empty]
    /\ UNCHANGED <<config, PlayerPos, Moves, Visited, owners, pc, result, llm,
                   exhausted, oracle, run, analysis>>

\* an elimination that also frees the cells the player has been on
EliminateFreesTrail ==
    /\ pc = "loop"
    /\ ~GameOver(ActiveCount(ActivePlayers, numPlayers))
    /\ NoValidMoves(CurrentValidMoves)
    /\ moveCount' = moveCount + 1
    /\ validMoves' = CurrentValidMoves
    /\ ActivePlayers' = [ActivePlayers EXCEPT ![CurrentPlayer] = FALSE]
    /\ currentPlayerIndex' = (NextIndex + 1) % numPlayers
    /\ Visited' = {c \in Visited : CurrentPlayer \notin owners[c]}
    /\ UNCHANGED <<config, Grid, PlayerPos, Moves, owners, pc, result, llm,
                   exhausted, oracle, run, analysis>>

\* an elimination that flags every player without a valid move at once
EliminateAllStuck ==
    /\ pc = "loop"
    /\ ~GameOver(ActiveCount(ActivePlayers, numPlayers))
    /\ NoValidMoves(CurrentValidMoves)
    /\ moveCount' = moveCount + 1
    /\ validMoves' = CurrentValidMoves
    /\ ActivePlayers' = [p \in Players |->
                           /\ ActivePlayers[p]
                           /\ ~NoValidMoves(GetValidMoves(gridSize, Visited, PlayerPos[p]))]
    /\ currentPlayerIndex' = (NextIndex + 1) % numPlayers
    /\ UNCHANGED <<config, board, pc, result, llm, exhausted, oracle, run, analysis>>

\* the current player has no valid move: eliminated, no move asked for
Eliminate ==
    /\ pc = "loop"
    /\ ~GameOver(ActiveCount(ActivePlayers, numPlayers))
    /\ NoValidMoves(CurrentValidMoves)
    /\ moveCount' = moveCount + 1
    /\ validMoves' = CurrentValidMoves
    /\ ActivePlayers' = [ActivePlayers EXCEPT ![CurrentPlayer] = FALSE]
    /\ currentPlayerIndex' = (NextIndex + 1) % numPlayers
    /\ UNCHANGED <<config, board, pc, result, llm, exhausted, oracle, run, analysis>>

\* PlayGame that enters GetLLMMove whether or not there is a valid move
BeginMoveAnyway ==
    /\ pc = "loop"
    /\ ~GameOver(ActiveCount(ActivePlayers, numPlayers))
    /\ moveCount' = moveCount + 1
    /\ validMoves' = CurrentValidMoves
    /\ currentPlayerIndex' = NextIndex
    /\ retry' = 0
    /\ prompt' = <<>>
    /\ calls' = 0
    /\ llmErr' = Nil
    /\ pc' = "llm"
    /\ UNCHANGED <<config, board, ActivePlayers, result, response, parsed, exhausted,
                   run, analysis>>

\* the current player has a valid move: PlayGame enters GetLLMMove
BeginMove ==
    /\ pc = "loop"
    /\ ~GameOver(ActiveCount(ActivePlayers, numPlayers))
    /\ ~NoValidMoves(CurrentValidMoves)
    /\ moveCount' = moveCount + 1
    /\ validMoves' = CurrentValidMoves
    /\ currentPlayerIndex' = NextIndex
    /\ retry' = 0
    /\ prompt' = <<>>
    /\ calls' = 0
    /\ llmErr' = Nil
    /\ pc' = "llm"
    /\ UNCHANGED <<config, board, ActivePlayers, result, response, parsed, exhausted,
                   run, analysis>>

(***************************************************************************)
(* MakeMove.                                                               *)
(***************************************************************************)
\* MakeMove that frees the cell the player leaves
VisitedAfterMoveForgets(visited, oldPos, newPos) == (visited \ {oldPos}) \cup {newPos}

\* game.Visited after a MakeMove that does not mark the new position
VisitedAfterMoveUnmarked(visited, oldPos, newPos) == visited

\* game.Visited after MakeMove
VisitedAfterMove(visited, oldPos, newPos) == visited \cup {newPos}

\* game.Grid after a MakeMove that leaves the head marker on the old cell
GridAfterMoveKeepsHead(grid, player, oldPos, newPos) ==
    [c \in DOMAIN grid |-> IF c = newPos THEN player ELSE grid[c]]

\* game.Grid after MakeMove: the old cell becomes trail, then the new cell head
GridAfterMove(grid, player, oldPos, newPos) ==
    LET trailed == [c \in DOMAIN grid |->
                      IF c = oldPos THEN TrailChars[PlayerIndex(player)] ELSE grid[c]]
    IN  [c \in DOMAIN grid |-> IF c = newPos THEN player ELSE trailed[c]]

\* MakeMove that records the Move after it has moved the player: From is the
\* new position
MakeMoveLogsAfter(player, dir) ==
    LET oldPos == PlayerPos[player]
        newPos == getNewPosition(oldPos, dir)
    IN  /\ Grid' = GridAfterMove(Grid, player, oldPos, newPos)
        /\ PlayerPos' = [PlayerPos EXCEPT ![player] = newPos]
        /\ Visited' = VisitedAfterMove(Visited, oldPos, newPos)
        /\ Moves' = Append(Moves, [Player |-> player, Direction |-> dir,
                                   From |-> newPos, To |-> newPos])
        /\ owners' = [c \in DOMAIN owners |->
                        IF c = oldPos \/ c = newPos THEN owners[c] \cup {player}
                        ELSE owners[c]]

MakeMove(player, dir) ==
    LET oldPos == PlayerPos[player]
        newPos == getNewPosition(oldPos, dir)
    IN  /\ Grid' = GridAfterMove(Grid, player, oldPos, newPos)
        /\ PlayerPos' = [PlayerPos EXCEPT ![player] = newPos]
        /\ Visited' = VisitedAfterMove(Visited, oldPos, newPos)
        /\ Moves' = Append(Moves, [Player |-> player, Direction |-> dir,
                                   From |-> oldPos, To |-> newPos])
        /\ owners' = [c \in DOMAIN owners |->
                        IF c = oldPos \/ c = newPos THEN owners[c] \cup {player}
                        ELSE owners[c]]

(***************************************************************************)
(* GetLLMMove and the rest of the turn.                                    *)
(***************************************************************************)
Chars(word) ==
    CASE word = "up-left" -> <<"u", "p", "-", "l", "e", "f", "t">>
      [] word = "?" -> <<"?">>
      [] OTHER -> Str(word)

\* what the endpoint answers during a game: any of GameResponses in the
\* opening, the bare name of a valid move afterwards
GameResponses == {Chars(w) : w \in {Up, Down, Left, Right, "up-left", "?"}}

Responses ==
    IF Len(Moves) < FaultBefore THEN GameResponses
    ELSE {Str(validMoves[i]) : i \in DOMAIN validMoves}

\* the player handed to GetLLMMove and MakeMove, read from the rotation index
\* one slot too far
TurnPlayerNextSlot == PlayerIDs[((currentPlayerIndex + 1) % numPlayers) + 1]

\* the player whose turn is in progress
TurnPlayer == PlayerIDs[currentPlayerIndex + 1]

\* the loop condition of GetLLMMove off by one: one round more
MayCallOnceMore(r, limit) == r <= limit

\* the loop condition of GetLLMMove
MayCall(r, limit) == r < limit

\* a failed call of CallLLM that is counted as a retry and asked again
CallLLMFailsRetries ==
    /\ pc = "llm"
    /\ MayCall(retry, maxRetries)
    /\ calls' = calls + 1
    /\ llmErr' = ErrTransport
    /\ retry' = retry + 1
    /\ UNCHANGED <<config, board, ActivePlayers, currentPlayerIndex, moveCount,
                   validMoves, pc, result, prompt, response, parsed, exhausted,
                   run, analysis>>

\* CallLLM returns an error: GetLLMMove returns it and PlayGame returns "error"
CallLLMFails ==
    /\ pc = "llm"
    /\ MayCall(retry, maxRetries)
    \* the endpoint may fail at any call
    /\ calls' = calls + 1
    /\ llmErr' = ErrTransport
    /\ result' = ErrorResult
    /\ pc' = "done"
    /\ UNCHANGED <<config, board, ActivePlayers, currentPlayerIndex, moveCount,
                   validMoves, llm, exhausted, run, analysis>>

\* CallLLM returns a response and ParseDirection accepts it: GetLLMMove returns
\* the direction, PlayGame makes the move and passes the turn
CallLLMAccepted ==
    /\ pc = "llm"
    /\ MayCall(retry, maxRetries)
    /\ Len(Moves) < MaxMoves
    /\ \E raw \in Responses :
          LET resp == TrimSpace(raw)
              p == ParseDirection(resp, validMoves)
          IN  /\ p.err = Nil
              /\ response' = resp
              /\ parsed' = p
              /\ MakeMove(TurnPlayer, p.dir)
    /\ calls' = calls + 1
    /\ llmErr' = Nil
    /\ currentPlayerIndex' = (currentPlayerIndex + 1) % numPlayers
    /\ pc' = "loop"
    /\ UNCHANGED <<config, ActivePlayers, moveCount, validMoves, result, retry,
                   prompt, exhausted, run, analysis>>

\* a rejected response that is counted neither as a call nor as a retry
CallLLMRejectedForgets ==
    /\ pc = "llm"
    /\ MayCall(retry, maxRetries)
    /\ Len(Moves) < MaxMoves
    /\ \E raw \in Responses :
          LET resp == TrimSpace(raw)
              p == ParseDirection(resp, validMoves)
          IN  /\ p.err # Nil
              /\ response' = resp
              /\ parsed' = p
    /\ UNCHANGED <<config, board, ActivePlayers, currentPlayerIndex, moveCount,
                   validMoves, pc, result, retry, prompt, exhausted, oracle, run,
                   analysis>>

\* CallLLM returns a response and ParseDirection rejects it: the response is
\* appended to the prompt and the loop goes round
CallLLMRejected ==
    /\ pc = "llm"
    /\ MayCall(retry, maxRetries)
    /\ Len(Moves) < MaxMoves
    /\ \E raw \in Responses :
          LET resp == TrimSpace(raw)
              p == ParseDirection(resp, validMoves)
          IN  /\ p.err # Nil
              /\ response' = resp
              /\ parsed' = p
              /\ prompt' = Append(prompt, resp)
    /\ retry' = retry + 1
    /\ calls' = calls + 1
    /\ llmErr' = Nil
    /\ UNCHANGED <<config, board, ActivePlayers, currentPlayerIndex, moveCount,
                   validMoves, pc, result, exhausted, run, analysis>>

\* GetLLMMove that gives up asking and takes the first valid move itself
RetriesExceededPicks ==
    /\ pc = "llm"
    /\ ~MayCall(retry, maxRetries)
    /\ MakeMove(TurnPlayer, validMoves[1])
    /\ currentPlayerIndex' = (currentPlayerIndex + 1) % numPlayers
    /\ pc' = "loop"
    /\ UNCHANGED <<config, ActivePlayers, moveCount, validMoves, result, llm,
                   exhausted, oracle, run, analysis>>

\* the loop of GetLLMMove ends without a direction: PlayGame returns "error"
RetriesExceeded ==
    /\ pc = "llm"
    /\ ~MayCall(retry, maxRetries)
    /\ result' = ErrorResult
    /\ pc' = "done"
    /\ UNCHANGED <<config, board, ActivePlayers, currentPlayerIndex, moveCount,
                   validMoves, llm, exhausted, oracle, run, analysis>>

(***************************************************************************)
(* main after PlayGame has returned.                                       *)
(***************************************************************************)
\* stats as main makes it; a key that is not in the PlayerWins map reads 0
NoStats ==
    [PlayerWins |-> [p \in {PlayerIDs[i] : i \in DOMAIN PlayerIDs} |-> 0],
     Errors |-> 0, TotalGames |-> 0]

\* an update of the statistics that leaves a game that ended with "error" out
\* of the game count
StatsAfterSkipsErrorGames(st, res) ==
    [PlayerWins |-> IF res # ErrorResult /\ res # Draw
                    THEN [st.PlayerWins EXCEPT ![res] = @ + 1]
                    ELSE st.PlayerWins,
     Errors |-> IF res = ErrorResult THEN st.Errors + 1 ELSE st.Errors,
     TotalGames |-> IF res = ErrorResult THEN st.TotalGames ELSE st.TotalGames + 1]

\* an update of the statistics that counts a draw as an error
StatsAfterDrawIsError(st, res) ==
    [PlayerWins |-> IF res # ErrorResult /\ res # Draw
                    THEN [st.PlayerWins EXCEPT ![res] = @ + 1]
                    ELSE st.PlayerWins,
     Errors |-> IF res = ErrorResult \/ res = Draw THEN st.Errors + 1 ELSE st.Errors,
     TotalGames |-> st.TotalGames + 1]

\* an error counted as a win of the first player
StatsAfterCreditsFirst(st, res) ==
    [PlayerWins |-> IF res = Draw THEN st.PlayerWins
                    ELSE IF res = ErrorResult
                         THEN [st.PlayerWins EXCEPT ![PlayerIDs[1]] = @ + 1]
                         ELSE [st.PlayerWins EXCEPT ![res] = @ + 1],
     Errors |-> IF res = ErrorResult THEN st.Errors + 1 ELSE st.Errors,
     TotalGames |-> st.TotalGames + 1]

\* main's update of the statistics with the result of a game
StatsAfter(st, res) ==
    [PlayerWins |-> IF res # ErrorResult /\ res # Draw
                    THEN [st.PlayerWins EXCEPT ![res] = @ + 1]
                    ELSE st.PlayerWins,
     Errors |-> IF res = ErrorResult THEN st.Errors + 1 ELSE st.Errors,
     TotalGames |-> st.TotalGames + 1]

\* PlayGame has returned: main updates the statistics and goes round its
\* loop; the game and the locals of PlayGame and GetLLMMove are gone
RecordGame ==
    /\ pc = "done"
    /\ stats' = StatsAfter(stats, result)
    /\ Grid' = <<>>
    /\ PlayerPos' = <<>>
    /\ ActivePlayers' = <<>>
    /\ Moves' = <<>>
    /\ Visited' = {}
    /\ owners' = <<>>
    /\ exhausted' = {}
    /\ currentPlayerIndex' = 0
    /\ moveCount' = 0
    /\ validMoves' = <<>>
    /\ retry' = 0
    /\ prompt' = <<>>
    /\ response' = <<>>
    /\ parsed' = [dir |-> "", err |-> Nil]
    /\ calls' = 0
    /\ llmErr' = Nil
    /\ pc' = "main"
    /\ UNCHANGED <<config, result, gameCount, analysis>>

\* every game asked for has been played: main leaves its loop and ends
MainExit ==
    /\ pc = "main"
    /\ GamesPlayed(numGames, gameCount)
    /\ pc' = "exit"
    /\ UNCHANGED <<config, board, ActivePlayers, currentPlayerIndex, moveCount,
                   validMoves, result, llm, exhausted, oracle, run, analysis>>

(***************************************************************************)
(* The game.                                                               *)
(***************************************************************************)
\* the variables that main and PlayGame have not touched yet
Untouched ==
    /\ Grid = <<>>
    /\ PlayerPos = <<>>
    /\ ActivePlayers = <<>>
    /\ Moves = <<>>
    /\ Visited = {}
    /\ currentPlayerIndex = 0
    /\ moveCount = 0
    /\ validMoves = <<>>
    /\ result = Pending
    /\ retry = 0
    /\ prompt = <<>>
    /\ response = <<>>
    /\ parsed = NoParse
    /\ owners = <<>>
    /\ exhausted = {}
    /\ gameCount = 0
    /\ stats = NoStats
    /\ calls = 0
    /\ llmErr = Nil
    /\ evaluations = <<>>
    /\ blocked = <<>>

Init ==
    /\ gridSize \in 1 .. MaxSize
    /\ numPlayers \in 2 .. MaxPlayers
    /\ maxRetries \in 0 .. MaxRetriesFlag
    /\ numGames = 1
    /\ gameCount = 0
    /\ stats = NoStats
    /\ calls = 0
    /\ llmErr = Nil
    /\ evaluations = <<>>
    /\ blocked = <<>>
    /\ Grid = <<>>
    /\ PlayerPos = <<>>
    /\ ActivePlayers = <<>>
    /\ Moves = <<>>
    /\ Visited = {}
    /\ currentPlayerIndex = 0
    /\ moveCount = 0
    /\ validMoves = <<>>
    /\ pc = "main"
    /\ result = Pending
    /\ retry = 0
    /\ prompt = <<>>
    /\ response = <<>>
    /\ parsed = NoParse
    /\ owners = <<>>
    /\ exhausted = {}

Next ==
    \/ InitGame
    \/ Finish
    \/ Eliminate
    \/ BeginMove
    \/ CallLLMFails
    \/ CallLLMAccepted
    \/ CallLLMRejected
    \/ RetriesExceeded
    \/ RecordGame
    \/ MainExit

Spec == Init /\ [][Next]_vars

\* the program runs on: the oracle answers or fails, and every loop goes round
FairSpec == Spec /\ WF_vars(Next)

\* a run of several games on a small board
InitRun ==
    /\ gridSize \in 1 .. MaxRunSize
    /\ numPlayers \in 2 .. MaxPlayers
    /\ maxRetries \in 0 .. MaxRetriesFlag
    /\ numGames \in 0 .. MaxGames
    /\ pc = "main"
    /\ Untouched

SpecRun == InitRun /\ [][Next]_vars

(***************************************************************************)
(* BuildPrompt: the look-ahead analysis of the valid moves, their ranking, *)
(* and the blocked moves.                                                  *)
(*                                                                         *)
(* The program's float64 values are exact rationals here, kept as integers *)
(* over a common denominator: AvgDepthMobility is in units of 1/288        *)
(* (the averages divide by 1..4, the deeper level is weighted 1/2),        *)
(* DistanceFromCenter in units of 1/4, and TotalScore in units of          *)
(* 1/(1152 * size * size).                                                 *)
(***************************************************************************)
\* countAvailableMoves that counts the neighbours on the board, visited or not
countAvailableMovesOnBoard(size, visited, pos) ==
    Cardinality({d \in Direction : getNewPosition(pos, d) \in Cells(size)})

countAvailableMoves(size, visited, pos) ==
    Cardinality({d \in Direction : IsValidMove(size, visited, getNewPosition(pos, d))})

\* the Visited of the copy simulateMove makes
simulateMove(visited, to) == visited \cup {to}

\* simulateMove that marks the new position in the map of the game it was
\* given instead of a copy
simulateMoveShares(visited, to) == visited \cup {to}

\* game.Visited after simulateMove(game, to): the loop over it only reads,
\* and the new position is marked in the copy
simulateMoveLeaves(visited, to) == visited

\* game.Visited after BuildPrompt has called evaluateMove for each of moves;
\* evaluateMove hands game to simulateMove and everything else to the copy
RECURSIVE VisitedAfterEvaluations(_, _, _)
VisitedAfterEvaluations(visited, currentPos, moves) ==
    IF moves = <<>> THEN visited
    ELSE VisitedAfterEvaluations(
             simulateMoveLeaves(visited, getNewPosition(currentPos, Head(moves))),
             currentPos, Tail(moves))

\* the four neighbours of pos in the order up, down, left, right
Directions(pos) == [i \in DOMAIN AllDirs |-> getNewPosition(pos, AllDirs[i])]

\* the breadth-first flood fill of countReachableTerritory: count is the
\* number of positions marked in its visited map
RECURSIVE FloodFill(_, _, _, _)
FloodFill(size, visited, seen, queue) ==
    IF queue = <<>> THEN Cardinality(seen)
    ELSE LET next == SelectSeq(Directions(Head(queue)),
                               LAMBDA n : n \notin seen /\ IsValidMove(size, visited, n))
         IN  FloodFill(size, visited, seen \cup {next[i] : i \in DOMAIN next},
                       Tail(queue) \o next)

\* countReachableTerritory that starts its count at 0, leaving start out
countReachableTerritoryFromZero(size, visited, start) ==
    FloodFill(size, visited, {start}, <<start>>) - 1

\* countReachableTerritory that counts every free cell of the board, connected
\* to start or not
countReachableTerritoryAnyFree(size, visited, start) ==
    1 + Cardinality(Cells(size) \ (visited \cup {start}))

countReachableTerritory(size, visited, start) ==
    FloodFill(size, visited, {start}, <<start>>)

getAvailablePositions(size, visited, pos) ==
    SelectSeq(Directions(pos), LAMBDA n : IsValidMove(size, visited, n))

RECURSIVE SumSeq(_)
SumSeq(s) == IF s = <<>> THEN 0 ELSE Head(s) + SumSeq(Tail(s))

\* the denominator of calculateDepthMobility at maxDepth: 12 at depth 1,
\* times 24 for each further level
RECURSIVE DepthScale(_)
DepthScale(maxDepth) == IF maxDepth <= 1 THEN 12 ELSE 24 * DepthScale(maxDepth - 1)

\* calculateDepthMobility that averages over the four directions instead of
\* the available positions
RECURSIVE calculateDepthMobilityOverFour(_, _, _, _)
calculateDepthMobilityOverFour(size, visited, pos, maxDepth) ==
    IF maxDepth <= 0 THEN 0
    ELSE LET moves == getAvailablePositions(size, visited, pos)
             total(nextPos) ==
                 LET simGame == simulateMove(visited, nextPos)
                 IN  countAvailableMoves(size, simGame, nextPos) * (DepthScale(maxDepth) \div 12)
                     + (IF maxDepth > 1
                        THEN calculateDepthMobilityOverFour(size, simGame, nextPos, maxDepth - 1)
                        ELSE 0)
         IN  IF Len(moves) = 0 THEN 0
             ELSE 3 * SumSeq([i \in DOMAIN moves |-> total(moves[i])])

\* calculateDepthMobility times DepthScale(maxDepth)
RECURSIVE calculateDepthMobility(_, _, _, _)
calculateDepthMobility(size, visited, pos, maxDepth) ==
    IF maxDepth <= 0 THEN 0
    ELSE LET moves == getAvailablePositions(size, visited, pos)
             total(nextPos) ==
                 LET simGame == simulateMove(visited, nextPos)
                 IN  countAvailableMoves(size, simGame, nextPos) * (DepthScale(maxDepth) \div 12)
                     + (IF maxDepth > 1
                        THEN calculateDepthMobility(size, simGame, nextPos, maxDepth - 1)
                        ELSE 0)
         IN  IF Len(moves) = 0 THEN 0
             ELSE (12 \div Len(moves)) * SumSeq([i \in DOMAIN moves |-> total(moves[i])])

\* calculateDistance(row, col, size / 2, size / 2) times 4
calculateDistance(row, col, size) ==
    (2 * row - size) * (2 * row - size) + (2 * col - size) * (2 * col - size)

ScoreScale(boardSize) == 1152 * boardSize * boardSize

\* calculateMoveScore that counts the immediate moves against the move
calculateMoveScoreImmediatePenalty(eval, boardSize) ==
    eval.ReachableTerritory * 2 * ScoreScale(boardSize)
    + eval.AvgDepthMobility * 3 * 4 * boardSize * boardSize
    - eval.ImmediateMoves * 5 * ScoreScale(boardSize)
    + 288 * (4 * boardSize * boardSize - eval.DistanceFromCenter)

\* calculateMoveScore that counts the deep mobility against the move
calculateMoveScoreMobilityPenalty(eval, boardSize) ==
    eval.ReachableTerritory * 2 * ScoreScale(boardSize)
    - eval.AvgDepthMobility * 3 * 4 * boardSize * boardSize
    + eval.ImmediateMoves * 5 * ScoreScale(boardSize)
    + 288 * (4 * boardSize * boardSize - eval.DistanceFromCenter)

\* calculateMoveScore times ScoreScale(boardSize)
calculateMoveScore(eval, boardSize) ==
    eval.ReachableTerritory * 2 * ScoreScale(boardSize)
    + eval.AvgDepthMobility * 3 * 4 * boardSize * boardSize
    + eval.ImmediateMoves * 5 * ScoreScale(boardSize)
    + 288 * (4 * boardSize * boardSize - eval.DistanceFromCenter)

\* determineSafetyLevel with the test for MODERATE before the one for GOOD
determineSafetyLevelModerateFirst(eval) ==
    IF eval.ImmediateMoves = 0 THEN "DEATH TRAP"
    ELSE IF eval.ReachableTerritory >= 20 /\ eval.ImmediateMoves >= 3 THEN "EXCELLENT"
    ELSE IF eval.ImmediateMoves >= 2 /\ eval.ReachableTerritory >= 6 THEN "MODERATE"
    ELSE IF eval.ReachableTerritory >= 12 /\ eval.ImmediateMoves >= 2 THEN "GOOD"
    ELSE IF eval.ImmediateMoves = 1 \/ eval.ReachableTerritory < 5 THEN "RISKY"
    ELSE "DANGEROUS"

determineSafetyLevel(eval) ==
    IF eval.ImmediateMoves = 0 THEN "DEATH TRAP"
    ELSE IF eval.ReachableTerritory >= 20 /\ eval.ImmediateMoves >= 3 THEN "EXCELLENT"
    ELSE IF eval.ReachableTerritory >= 12 /\ eval.ImmediateMoves >= 2 THEN "GOOD"
    ELSE IF eval.ImmediateMoves >= 2 /\ eval.ReachableTerritory >= 6 THEN "MODERATE"
    ELSE IF eval.ImmediateMoves = 1 \/ eval.ReachableTerritory < 5 THEN "RISKY"
    ELSE "DANGEROUS"

evaluateMove(size, visited, currentPos, dir) ==
    LET newPos == getNewPosition(currentPos, dir)
        simGame == simulateMove(visited, newPos)
        measured == [Direction |-> dir,
                     NewPos |-> newPos,
                     ImmediateMoves |-> countAvailableMoves(size, simGame, newPos),
                     ReachableTerritory |-> countReachableTerritory(size, simGame, newPos),
                     AvgDepthMobility |-> calculateDepthMobility(size, simGame, newPos, 2),
                     DistanceFromCenter |-> calculateDistance(newPos[1], newPos[2], size)]
        scored == [f \in DOMAIN measured \cup {"TotalScore"} |->
                     IF f = "TotalScore" THEN calculateMoveScore(measured, size)
                     ELSE measured[f]]
    IN  [f \in DOMAIN scored \cup {"SafetyLevel"} |->
           IF f = "SafetyLevel" THEN determineSafetyLevel(scored) ELSE scored[f]]

\* the evaluations of the valid moves, in the order of moves
Evaluations(size, visited, currentPos, moves) ==
    [i \in DOMAIN moves |-> evaluateMove(size, visited, currentPos, moves[i])]

\* the sort of BuildPrompt: for i, for j > i, swap when evaluations[j] has the
\* greater TotalScore
RECURSIVE SortInner(_, _, _)
SortInner(evals, i, j) ==
    IF j > Len(evals) THEN evals
    ELSE SortInner(IF evals[j].TotalScore > evals[i].TotalScore
                   THEN [evals EXCEPT ![i] = evals[j], ![j] = evals[i]]
                   ELSE evals,
                   i, j + 1)

RECURSIVE SortOuter(_, _)
SortOuter(evals, i) ==
    IF i >= Len(evals) THEN evals ELSE SortOuter(SortInner(evals, i, i + 1), i + 1)

SortByScore(evals) == SortOuter(evals, 1)

\* getBlockedMoves that gives "already visited" for every blocked direction
getBlockedMovesVisitedOnly(size, visited, currentPos, moves) ==
    [d \in {e \in Direction : ~Contains(moves, e)} |-> "already visited"]

getBlockedMoves(size, visited, currentPos, moves) ==
    LET outside(d) == LET newPos == getNewPosition(currentPos, d)
                      IN  newPos[1] < 0 \/ newPos[1] >= size \/ newPos[2] < 0 \/ newPos[2] >= size
        keys == {d \in Direction : /\ ~Contains(moves, d)
                                   /\ (outside(d) \/ getNewPosition(currentPos, d) \in visited)}
    IN  [d \in keys |-> IF outside(d) THEN "out of bounds" ELSE "already visited"]

(***************************************************************************)
(* BuildPrompt on its own: for player 1 to move, on every board up to      *)
(* MaxEvalSize with every set of visited cells that holds the players'     *)
(* positions and leaves player 1 a valid move.                             *)
(***************************************************************************)
InitEval ==
    /\ gridSize \in 1 .. MaxEvalSize
    /\ numPlayers = 2
    /\ maxRetries = 1
    /\ numGames = 1
    /\ gameCount = 1
    /\ Visited \in SUBSET Cells(gridSize)
    /\ PlayerPos \in [Players -> Visited]
    /\ ActivePlayers = [p \in Players |-> TRUE]
    /\ validMoves = GetValidMoves(gridSize, Visited, PlayerPos[PlayerIDs[1]])
    /\ validMoves # <<>>
    /\ currentPlayerIndex = 0
    /\ Grid = <<>>
    /\ Moves = <<>>
    /\ moveCount = 1
    /\ pc = "prompt"
    /\ result = Pending
    /\ retry = 0
    /\ prompt = <<>>
    /\ response = <<>>
    /\ parsed = NoParse
    /\ owners = <<>>
    /\ exhausted = {}
    /\ stats = NoStats
    /\ calls = 0
    /\ llmErr = Nil
    /\ evaluations = <<>>
    /\ blocked = <<>>

\* BuildPrompt evaluates the valid moves, sorts the evaluations, and asks
\* getBlockedMoves for the other directions
ApplyBuildPrompt ==
    /\ pc = "prompt"
    /\ evaluations' = SortByScore(Evaluations(gridSize, Visited, PlayerPos[TurnPlayer],
                                              validMoves))
    /\ blocked' = getBlockedMoves(gridSize, Visited, PlayerPos[TurnPlayer], validMoves)
    /\ Visited' = VisitedAfterEvaluations(Visited, PlayerPos[TurnPlayer], validMoves)
    /\ pc' = "prompted"
    /\ UNCHANGED <<config, Grid, PlayerPos, Moves, owners, ActivePlayers,
                   currentPlayerIndex, moveCount, validMoves, result, llm, exhausted,
                   oracle, run>>

NextEval == ApplyBuildPrompt

SpecEval == InitEval /\ [][NextEval]_vars

(***************************************************************************)
(* determineSafetyLevel on its own: every evaluation with up to four       *)
(* immediate moves and a territory up to MaxTerritory.                     *)
(***************************************************************************)
InitSafety ==
    /\ gridSize = 1
    /\ numPlayers = 2
    /\ maxRetries = 1
    /\ numGames = 1
    /\ gameCount = 0
    /\ Grid = <<>>
    /\ PlayerPos = <<>>
    /\ ActivePlayers = <<>>
    /\ Moves = <<>>
    /\ Visited = {}
    /\ currentPlayerIndex = 0
    /\ moveCount = 0
    /\ validMoves = <<>>
    /\ pc = "safety"
    /\ result = Pending
    /\ retry = 0
    /\ prompt = <<>>
    /\ response = <<>>
    /\ parsed = NoParse
    /\ owners = <<>>
    /\ exhausted = {}
    /\ stats = NoStats
    /\ calls = 0
    /\ llmErr = Nil
    /\ \E moves \in 0 .. 4, territory \in 0 .. MaxTerritory,
          mobility \in {0, 288}, score \in {0, ScoreScale(12)}, dir \in Direction :
          evaluations = <<[Direction |-> dir,
                           NewPos |-> <<0, 0>>,
                           ImmediateMoves |-> moves,
                           ReachableTerritory |-> territory,
                           AvgDepthMobility |-> mobility,
                           DistanceFromCenter |-> 0,
                           TotalScore |-> score,
                           SafetyLevel |-> ""]>>
    /\ blocked = <<>>

ApplyDetermineSafetyLevel ==
    /\ pc = "safety"
    /\ evaluations' = [i \in DOMAIN evaluations |->
                         [evaluations[i] EXCEPT
                            !.SafetyLevel = determineSafetyLevel(evaluations[i])]]
    /\ pc' = "rated"
    /\ UNCHANGED <<config, board, ActivePlayers, currentPlayerIndex, moveCount,
                   validMoves, result, llm, exhausted, oracle, run, blocked>>

NextSafety == ApplyDetermineSafetyLevel

SpecSafety == InitSafety /\ [][NextSafety]_vars

(***************************************************************************)
(* calculateMoveScore on its own: an evaluation of a cell of a board up to *)
(* MaxEvalSize is scored, then scored again with one of its three counts   *)
(* raised.                                                                 *)
(***************************************************************************)
\* the fields of a MoveEvaluation that calculateMoveScore weighs positively
Counts == {"ImmediateMoves", "ReachableTerritory", "AvgDepthMobility"}

Scored(eval, boardSize) == [eval EXCEPT !.TotalScore = calculateMoveScore(eval, boardSize)]

InitScore ==
    /\ gridSize \in 1 .. MaxEvalSize
    /\ numPlayers = 2
    /\ maxRetries = 1
    /\ numGames = 1
    /\ gameCount = 0
    /\ Grid = <<>>
    /\ PlayerPos = <<>>
    /\ ActivePlayers = <<>>
    /\ Moves = <<>>
    /\ Visited = {}
    /\ currentPlayerIndex = 0
    /\ moveCount = 0
    /\ validMoves = <<>>
    /\ pc = "score"
    /\ result = Pending
    /\ retry = 0
    /\ prompt = <<>>
    /\ response = <<>>
    /\ parsed = NoParse
    /\ owners = <<>>
    /\ exhausted = {}
    /\ stats = NoStats
    /\ calls = 0
    /\ llmErr = Nil
    /\ \E moves \in 0 .. 4, territory \in 0 .. MaxTerritory,
          mobility \in {0, 216, 432}, newPos \in Cells(gridSize) :
          evaluations = <<[Direction |-> Up,
                           NewPos |-> newPos,
                           ImmediateMoves |-> moves,
                           ReachableTerritory |-> territory,
                           AvgDepthMobility |-> mobility,
                           DistanceFromCenter |->
                               calculateDistance(newPos[1], newPos[2], gridSize),
                           TotalScore |-> 0,
                           SafetyLevel |-> ""]>>
    /\ blocked = <<>>

ApplyCalculateMoveScore ==
    /\ pc = "score"
    /\ evaluations' = <<Scored(evaluations[1], gridSize)>>
    /\ pc' = "scored"
    /\ UNCHANGED <<config, board, ActivePlayers, currentPlayerIndex, moveCount,
                   validMoves, result, llm, exhausted, oracle, run, blocked>>

\* the same evaluation with one count raised, scored and put next to the first
ApplyCalculateMoveScoreRaised ==
    /\ pc = "scored"
    /\ \E count \in Counts, by \in 1 .. 2 :
          evaluations' =
              Append(evaluations,
                     Scored([evaluations[1] EXCEPT ![count] = @ + by], gridSize))
    /\ pc' = "compared"
    /\ UNCHANGED <<config, board, ActivePlayers, currentPlayerIndex, moveCount,
                   validMoves, result, llm, exhausted, oracle, run, blocked>>

NextScore == ApplyCalculateMoveScore \/ ApplyCalculateMoveScoreRaised

SpecScore == InitScore /\ [][NextScore]_vars

(***************************************************************************)
(* main's update of the statistics on its own: PlayGame has returned any   *)
(* of its results, the draw included, after games that left up to MaxWins   *)
(* wins for each player and up to MaxWins errors.                          *)
(***************************************************************************)
RECURSIVE SumWins(_, _)
SumWins(wins, ids) ==
    IF ids = {} THEN 0
    ELSE LET p == CHOOSE q \in ids : TRUE
         IN  wins[p] + SumWins(wins, ids \ {p})

InitStats ==
    /\ gridSize = 1
    /\ numPlayers \in 2 .. MaxPlayers
    /\ maxRetries = 1
    /\ numGames = 0
    /\ Grid = <<>>
    /\ PlayerPos = <<>>
    /\ ActivePlayers = <<>>
    /\ Moves = <<>>
    /\ Visited = {}
    /\ currentPlayerIndex = 0
    /\ moveCount = 1
    /\ validMoves = <<>>
    /\ pc = "done"
    /\ result \in Players \cup {ErrorResult, Draw}
    /\ retry = 0
    /\ prompt = <<>>
    /\ response = <<>>
    /\ parsed = NoParse
    /\ owners = <<>>
    /\ exhausted = {}
    /\ \E wins \in [Players -> 0 .. MaxWins], errors \in 0 .. MaxWins :
          stats = [PlayerWins |-> [p \in DOMAIN NoStats.PlayerWins |->
                                      IF p \in Players THEN wins[p] ELSE 0],
                   Errors |-> errors,
                   TotalGames |-> SumWins(wins, Players) + errors]
    /\ gameCount = stats.TotalGames + 1
    /\ calls = 0
    /\ llmErr = Nil
    /\ evaluations = <<>>
    /\ blocked = <<>>

NextStats == RecordGame

SpecStats == InitStats /\ [][NextStats]_vars

(***************************************************************************)
(* MakeMove on its own: called in any state of a game on a small board,    *)
(* for any player and any direction, without the test PlayGame makes.      *)
(***************************************************************************)
\* MakeMove with a destination outside the grid: the old cell is made trail
\* and PlayerPos is set, then the write to game.Grid at the new position
\* panics (index out of range) before Visited and Moves are touched
MakeMovePanics(player, dir) ==
    LET oldPos == PlayerPos[player]
        newPos == getNewPosition(oldPos, dir)
    IN  /\ Grid' = [Grid EXCEPT ![oldPos] = TrailChars[PlayerIndex(player)]]
        /\ PlayerPos' = [PlayerPos EXCEPT ![player] = newPos]
        /\ owners' = [owners EXCEPT ![oldPos] = @ \cup {player}]
        /\ UNCHANGED <<Visited, Moves>>

ApplyMakeMove ==
    /\ pc = "loop"
    /\ \E player \in Players, dir \in Direction :
          LET newPos == getNewPosition(PlayerPos[player], dir)
          IN  IF newPos \in Cells(gridSize)
              THEN MakeMove(player, dir) /\ pc' = "applied"
              ELSE MakeMovePanics(player, dir) /\ pc' = "panic"
    /\ UNCHANGED <<config, ActivePlayers, currentPlayerIndex, moveCount, validMoves,
                   result, llm, exhausted, oracle, run, analysis>>

InitApply == Init /\ gridSize <= MaxRunSize

NextApply == Next \/ ApplyMakeMove

SpecApply == InitApply /\ [][NextApply]_vars

(***************************************************************************)
(* The two-player program of main.go: PlayGame with its GetLLMMove, as a    *)
(* function from its state and the result of the oracle to its next state. *)
(* A state is a record of the game (Size, Player1Pos, Player2Pos, Visited,  *)
(* Moves), the locals currentPlayer, validMoves, retry and prompt, where in *)
(* PlayGame the program is (pc), and what PlayGame has returned (result).   *)
(* Grid is left out: it is written and never read by PlayGame, and the two  *)
(* programs draw player 2's trail with different glyphs.  IsValidMove,      *)
(* ParseDirection and CallLLM's trimming are the same code in both files.   *)
(***************************************************************************)
Player1 == "1"
Player2 == "2"

\* the game and the locals of PlayGame after InitGame
TwoInitGame(size, pos1, pos2) ==
    [Size |-> size, Player1Pos |-> pos1, Player2Pos |-> pos2,
     Visited |-> {pos1, pos2}, Moves |-> <<>>,
     currentPlayer |-> Player1, validMoves |-> <<>>, retry |-> 0, prompt |-> <<>>,
     pc |-> "loop", result |-> Pending]

TwoGetValidMoves(game, player) ==
    LET currentPos == IF player = Player1 THEN game.Player1Pos ELSE game.Player2Pos
    IN  SelectSeq(AllDirs,
                  LAMBDA d : IsValidMove(game.Size, game.Visited, getNewPosition(currentPos, d)))

TwoMakeMove(game, player, direction) ==
    LET oldPos == IF player = Player1 THEN game.Player1Pos ELSE game.Player2Pos
        newPos == getNewPosition(oldPos, direction)
        move == [Player |-> player, Direction |-> direction, From |-> oldPos, To |-> newPos]
    IN  [game EXCEPT !.Player1Pos = IF player = Player1 THEN newPos ELSE @,
                     !.Player2Pos = IF player = Player1 THEN @ ELSE newPos,
                     !.Visited = @ \cup {newPos},
                     !.Moves = Append(@, move)]

\* PlayGame returns res: its locals are gone
TwoReturn(s, res) ==
    [s EXCEPT !.pc = "done", !.result = res, !.currentPlayer = Nil,
              !.validMoves = <<>>, !.retry = 0, !.prompt = <<>>]

\* the winner that is always player 2, whoever is stuck
TwoWinnerAlwaysSecond(currentPlayer) == Player2

\* the winner when currentPlayer has no valid move
TwoWinner(currentPlayer) == IF currentPlayer = Player2 THEN Player1 ELSE Player2

\* the switch of players after a move
TwoSwitch(currentPlayer) == IF currentPlayer = Player1 THEN Player2 ELSE Player1

\* a step of the program that does not ask the oracle: the top of the loop up
\* to the return of the winner or the entry of GetLLMMove, and the exit of
\* GetLLMMove's loop with "max retries exceeded"
TwoStep(s) ==
    IF s.pc = "loop"
    THEN LET moves == TwoGetValidMoves(s, s.currentPlayer)
         IN  IF Len(moves) = 0 THEN TwoReturn(s, TwoWinner(s.currentPlayer))
             ELSE [s EXCEPT !.pc = "llm", !.validMoves = moves, !.retry = 0, !.prompt = <<>>]
    ELSE IF s.pc = "llm" /\ ~(s.retry < maxRetries) THEN TwoReturn(s, ErrorResult)
    ELSE s

\* a round of GetLLMMove's loop in which CallLLM returns (resp, err)
TwoCallLLM(s, resp, err) ==
    IF err # Nil THEN TwoReturn(s, ErrorResult)
    ELSE LET p == ParseDirection(resp, s.validMoves)
         IN  IF p.err = Nil
             THEN [TwoMakeMove(s, s.currentPlayer, p.dir)
                      EXCEPT !.currentPlayer = TwoSwitch(s.currentPlayer),
                             !.pc = "loop", !.validMoves = <<>>,
                             !.retry = 0, !.prompt = <<>>]
             ELSE [s EXCEPT !.retry = @ + 1, !.prompt = Append(@, resp)]

(***************************************************************************)
(* ParseDirection on its own: every input below, against every list of     *)
(* valid moves that GetValidMoves can hand to GetLLMMove.                   *)
(***************************************************************************)
Tokens ==
    {Str(Up), Str(Down), Str(Left), Str(Right), <<"U", "P">>, <<"R", "i", "g", "h", "t">>,
     <<" ">>, <<"-">>, <<"!">>, <<"_">>, <<"s">>, <<"\n">>}

RECURSIVE Concatenations(_)
Concatenations(n) ==
    IF n = 0 THEN {<<>>}
    ELSE LET shorter == Concatenations(n - 1)
         IN  shorter \cup {s \o t : s \in shorter, t \in Tokens}

\* "I think you should go UP!" and "up-left"
ThinkUp ==
    <<"I", " ", "t", "h", "i", "n", "k", " ", "y", "o", "u", " ", "s", "h", "o", "u",
      "l", "d", " ", "g", "o", " ", "U", "P", "!">>
UpLeft == Chars("up-left")

ParserInputs == Concatenations(MaxTokens) \cup {ThinkUp, UpLeft}

\* the non-empty lists GetValidMoves returns
ValidMoveLists ==
    {SelectSeq(AllDirs, LAMBDA d : d \in S) : S \in (SUBSET Direction) \ {{}}}

InitParse ==
    /\ gridSize = 1
    /\ numPlayers = 2
    /\ maxRetries = 1
    /\ Grid = <<>>
    /\ PlayerPos = <<>>
    /\ ActivePlayers = <<>>
    /\ Moves = <<>>
    /\ Visited = {}
    /\ currentPlayerIndex = 0
    /\ moveCount = 0
    /\ validMoves \in ValidMoveLists
    /\ pc = "parse"
    /\ result = Pending
    /\ retry = 0
    /\ prompt = <<>>
    /\ response \in ParserInputs
    /\ parsed = NoParse
    /\ owners = <<>>
    /\ exhausted = {}
    /\ numGames = 1
    /\ gameCount = 0
    /\ stats = NoStats
    /\ calls = 0
    /\ llmErr = Nil
    /\ evaluations = <<>>
    /\ blocked = <<>>

ApplyParseDirection ==
    /\ pc = "parse"
    /\ parsed' = ParseDirection(response, validMoves)
    /\ pc' = "parsed"
    /\ UNCHANGED <<config, board, ActivePlayers, currentPlayerIndex, moveCount,
                   validMoves, result, retry, prompt, response, exhausted,
                   oracle, run, analysis>>

NextParse == ApplyParseDirection

SpecParse == InitParse /\ [][NextParse]_vars

(***************************************************************************)
(* Properties.                                                             *)
(***************************************************************************)
InGame == pc \in {"loop", "llm", "done"}

Manhattan(a, b) == abs(a[1] - b[1]) + abs(a[2] - b[2])

Eliminated == {p \in Players : ~ActivePlayers[p]}

\* C1 (visitation monotonicity): within a game no step removes a position
\* from Visited; a position once visited stays visited.
VisitationMonotone ==
    [][(pc \in {"loop", "llm"}) => (Visited \subseteq Visited')]_vars

\* a game in which a player has been eliminated after moves were made, with
\* the first move's destination still visited
VisitationMonotoneWitness ==
    /\ InGame
    /\ Len(Moves) >= 3
    /\ Eliminated # {}
    /\ Moves[1].To \in Visited
    /\ Moves[1].From \in Visited

\* C2 (exclusive occupancy): over the whole game no cell ever carries the
\* head or trail marker of two different players.
ExclusiveOccupancy == \A c \in DOMAIN owners : Cardinality(owners[c]) <= 1

\* C3 (legality soundness): every move PlayGame makes is by the player whose
\* turn it is, in a direction of the validMoves list of that turn, and its
\* destination is on the board and was not visited before the move.
LegalitySoundness ==
    [][Len(Moves') > Len(Moves) =>
         LET m == Moves'[Len(Moves')]
         IN  /\ pc = "llm"
             /\ Len(Moves') = Len(Moves) + 1
             /\ m.Player = TurnPlayer
             /\ \E i \in DOMAIN validMoves : validMoves[i] = m.Direction
             /\ m.From = PlayerPos[m.Player]
             /\ m.To = getNewPosition(m.From, m.Direction)
             /\ m.To \in Cells(gridSize)
             /\ m.To \notin Visited]_vars

\* a move accepted on the second call of a turn in which not every direction
\* was valid
LegalitySoundnessWitness ==
    /\ pc = "loop"
    /\ Len(Moves) >= 1
    /\ retry = 1
    /\ parsed.err = Nil
    /\ Len(validMoves) < 4
    /\ Moves[Len(Moves)].Direction = parsed.dir

\* C4 (elimination correctness): a player becomes eliminated only on its own
\* turn and only with no valid move at the start of it, and a player whose
\* turn starts with no valid move is eliminated on that turn.
EliminationCorrectness ==
    [][(pc \in {"loop", "llm"}) =>
         \A p \in Players :
            LET myTurn == /\ pc = "loop"
                          /\ ActiveCount(ActivePlayers, numPlayers) > 1
                          /\ p = CurrentPlayer
                stuck == \A d \in Direction :
                            LET to == getNewPosition(PlayerPos[p], d)
                            IN  to \notin Cells(gridSize) \/ to \in Visited
            IN  /\ (ActivePlayers[p] /\ ~ActivePlayers'[p]) => (myTurn /\ stuck)
                /\ (myTurn /\ ActivePlayers[p] /\ stuck) => ~ActivePlayers'[p]]_vars

\* a player eliminated in a game that goes on between two others
EliminationCorrectnessWitness ==
    /\ pc = "loop"
    /\ Eliminated # {}
    /\ ActiveCount(ActivePlayers, numPlayers) >= 2
    /\ Len(Moves) >= 2

\* the loop iterations that moved or eliminated a player: moveCount counts the
\* iterations past the active-count test, and the one that ends in "error"
\* neither moves nor eliminates
TurnsPlayed == IF result = ErrorResult THEN moveCount - 1 ELSE moveCount

\* C5 (termination): every game reaches Finished, after at most
\* size * size * playerCount turns.
Termination == <>(pc = "done" /\ TurnsPlayed <= gridSize * gridSize * numPlayers)

\* a game won after five moves
TerminationWitness ==
    /\ pc = "done"
    /\ result \in Players
    /\ Len(Moves) >= 5
    /\ TurnsPlayed > Len(Moves)

\* C6 (last player standing): when one player is left the next active-count
\* test ends the game with that player as winner, no move is asked of it, and
\* a declared winner is always still active.
LastPlayerStanding ==
    [][pc # "main" =>
         /\ (pc = "loop" /\ ActiveCount(ActivePlayers, numPlayers) = 1) =>
               /\ pc' = "done"
               /\ result' \in Players
               /\ \A p \in Players : ActivePlayers[p] <=> p = result'
               /\ UNCHANGED <<board, ActivePlayers, llm, validMoves, moveCount>>
         /\ pc' = "llm" => ActiveCount(ActivePlayers', numPlayers) >= 2
         /\ (pc' = "done" /\ result' \in Players) => ActivePlayers'[result']]_vars

\* three players, two eliminated, and a winner that could still have moved
LastPlayerStandingWitness ==
    /\ pc = "done"
    /\ numPlayers = 3
    /\ result \in Players
    /\ Cardinality(Eliminated) = 2
    /\ Len(GetValidMoves(gridSize, Visited, PlayerPos[result])) > 0
    /\ Len(Moves) >= 1

\* C7 (no draw): in every state of PlayGame at least one player is active,
\* and PlayGame never returns the draw result.
DrawUnreachable ==
    InGame => /\ ActiveCount(ActivePlayers, numPlayers) >= 1
              /\ result # Draw

\* a finished game in which no player, the winner included, has a valid move
DrawUnreachableWitness ==
    /\ pc = "done"
    /\ result \in Players
    /\ \A p \in Players : Len(GetValidMoves(gridSize, Visited, PlayerPos[p])) = 0

\* C8 (starting-position spacing): right after InitGame any two players are
\* at Manhattan distance 3 or more.
StartSpacing ==
    (pc = "loop" /\ moveCount = 0) =>
        \A p, q \in Players : p # q => Manhattan(PlayerPos[p], PlayerPos[q]) >= 3

\* word d stands alone in s at index i: it is there, and neither the
\* character before it nor the one after it is a letter, a digit or "_"
StandaloneAt(s, i, d) ==
    LET w == Str(d)
    IN  /\ i + Len(w) - 1 <= Len(s)
        /\ \A k \in 1 .. Len(w) : s[i + k - 1] = w[k]
        /\ (i = 1 \/ s[i - 1] \notin WordChars)
        /\ (i + Len(w) > Len(s) \/ s[i + Len(w)] \notin WordChars)

\* C9 (parser rule): the lower-cased, trimmed response is returned when it is
\* the name of a legal direction; otherwise the first standalone direction
\* word decides: it is returned when legal and is an error when not; with no
\* standalone word the result is an error.  What is returned is always legal.
ParserRule ==
    pc = "parsed" =>
        LET s == ToLower(TrimSpace(response))
            legal == {validMoves[i] : i \in DOMAIN validMoves}
            occ == {i \in 1 .. Len(s) : \E d \in Direction : StandaloneAt(s, i, d)}
        IN  /\ parsed.err = Nil => parsed.dir \in legal
            /\ IF \E d \in legal : s = Str(d)
               THEN parsed.err = Nil /\ s = Str(parsed.dir)
               ELSE IF occ = {}
                    THEN parsed.err # Nil
                    ELSE LET first == CHOOSE i \in occ : \A j \in occ : i <= j
                         IN  \A d \in Direction :
                                StandaloneAt(s, first, d) =>
                                    IF d \in legal
                                    THEN parsed = [dir |-> d, err |-> Nil]
                                    ELSE parsed.err # Nil

\* an illegal first word followed by a legal one: an error
ParserRuleWitness ==
    /\ pc = "parsed"
    /\ response = UpLeft
    /\ validMoves = <<Left>>
    /\ parsed.err = ErrNotValid

\* C10 as stated: the response "up-left" never parses.
UpLeftNeverParses == response = UpLeft => parsed.err # Nil

\* C10 as amended: on the response "up-left" GetLLMMove accepts up when up is
\* a valid move, and the move is made; when up is not valid the parse fails,
\* whether or not left is valid, and GetLLMMove goes round with the response
\* appended to the prompt.
UpLeftParsesAsUp ==
    [][(/\ pc = "llm"
        /\ response' = UpLeft
        /\ (retry' = retry + 1 \/ Len(Moves') = Len(Moves) + 1)) =>
         IF \E i \in DOMAIN validMoves : validMoves[i] = Up
         THEN /\ parsed' = [dir |-> Up, err |-> Nil]
              /\ Len(Moves') = Len(Moves) + 1
              /\ Moves'[Len(Moves')].Direction = Up
              /\ Moves'[Len(Moves')].Player = TurnPlayer
              /\ retry' = retry
              /\ pc' = "loop"
         ELSE /\ parsed'.err # Nil
              /\ Moves' = Moves
              /\ retry' = retry + 1
              /\ prompt' = Append(prompt, UpLeft)
              /\ pc' = "llm"]_vars

\* "up-left" rejected although left is a valid move, and a second call due
UpLeftParsesAsUpWitness ==
    /\ pc = "llm"
    /\ retry = 1
    /\ retry < maxRetries
    /\ prompt = <<UpLeft>>
    /\ \E i \in DOMAIN validMoves : validMoves[i] = Left

\* C11 (retry on parse failure): a response that fails to parse is answered
\* by another round of GetLLMMove's loop with the response appended to the
\* prompt; a move is made only in the direction ParseDirection returned for
\* the response of that call; there are at most maxRetries rounds, and when
\* all have failed the game ends with "error"; no step of the turn but an
\* accepted response changes the board or the move log.
RetryOnParseFailure ==
    [][pc = "llm" =>
         /\ retry <= maxRetries
         /\ (calls' = calls + 1 /\ llmErr' = Nil /\ parsed'.err # Nil) =>
               /\ retry < maxRetries
               /\ retry' = retry + 1
               /\ prompt' = Append(prompt, response')
               /\ pc' = "llm"
               /\ UNCHANGED <<board, ActivePlayers, result>>
         /\ Moves' # Moves =>
               /\ calls' = calls + 1
               /\ llmErr' = Nil
               /\ parsed' = ParseDirection(response', validMoves)
               /\ parsed'.err = Nil
               /\ Moves' = Append(Moves, Moves'[Len(Moves')])
               /\ Moves'[Len(Moves')].Direction = parsed'.dir
         /\ retry >= maxRetries =>
               /\ pc' = "done"
               /\ result' = ErrorResult
               /\ calls' = calls
               /\ UNCHANGED <<board, ActivePlayers>>]_vars

\* two responses rejected with -retries 2, and the game ended with "error"
RetryOnParseFailureWitness ==
    /\ pc = "done"
    /\ result = ErrorResult
    /\ maxRetries = 2
    /\ retry = 2
    /\ calls = 2
    /\ Len(prompt) = 2
    /\ llmErr = Nil

\* C12 (oracle transport error): a call of CallLLM that returns an error ends
\* the game at once with "error", whatever the number of retries left: it is
\* not counted as a retry, nothing is applied, and no call follows it in that
\* game; the outcome is the one of retry exhaustion.
TransportErrorNotRetried ==
    [][/\ (pc = "llm" /\ calls' = calls + 1 /\ llmErr' # Nil) =>
             /\ pc' = "done"
             /\ result' = ErrorResult
             /\ UNCHANGED <<board, ActivePlayers, llm>>
       /\ pc = "done" =>
             /\ pc' = "main"
             /\ calls' = 0
             /\ (result = ErrorResult => stats'.Errors = stats.Errors + 1)]_vars

\* the first call of a later turn failed with -retries 2: one call, no retry
TransportErrorNotRetriedWitness ==
    /\ pc = "done"
    /\ llmErr = ErrTransport
    /\ result = ErrorResult
    /\ maxRetries = 2
    /\ retry = 0
    /\ calls = 1
    /\ Len(Moves) >= 1

\* C13 (game error): a game that ended with "error" adds one to the error
\* count and to the game count and credits no player; main then goes round
\* its loop, where the next step is the end of the run (the games asked for
\* have been played) or a new game in the state InitGame makes: every player
\* active and on its starting cell, these cells alone visited and marked, no
\* move in the log, the rotation at index 0.
GameErrorContinues ==
    [][/\ (pc = "done" /\ result = ErrorResult) =>
             /\ stats'.Errors = stats.Errors + 1
             /\ stats'.TotalGames = stats.TotalGames + 1
             /\ stats'.PlayerWins = stats.PlayerWins
             /\ gameCount' = gameCount
             /\ pc' = "main"
       /\ pc = "main" =>
             /\ stats' = stats
             /\ IF GamesPlayed(numGames, gameCount)
                THEN pc' = "exit" /\ gameCount' = gameCount
                ELSE /\ pc' = "loop"
                     /\ gameCount' = gameCount + 1
                     /\ result' = Pending
                     /\ Moves' = <<>>
                     /\ moveCount' = 0
                     /\ currentPlayerIndex' = 0
                     /\ DOMAIN PlayerPos' = Players
                     /\ DOMAIN ActivePlayers' = Players
                     /\ \A p \in Players : ActivePlayers'[p] /\ PlayerPos'[p] \in Cells(gridSize)
                     /\ Visited' = {PlayerPos'[p] : p \in Players}
                     /\ DOMAIN Grid' = Cells(gridSize)
                     /\ \A c \in Cells(gridSize) :
                           IF c \in Visited'
                           THEN \E p \in Players : PlayerPos'[p] = c /\ Grid'[c] = p
                           ELSE Grid'[c] = Empty
       /\ (pc = "main" /\ gameCount < MaxGames /\ ~GamesPlayed(numGames, gameCount)) =>
             ENABLED InitGame
       /\ (pc = "main" /\ GamesPlayed(numGames, gameCount)) => ENABLED MainExit]_vars

\* the second game of a run, just started, after a first game that ended
\* with "error"
GameErrorContinuesWitness ==
    /\ pc = "loop"
    /\ gameCount = 2
    /\ stats.Errors = 1
    /\ stats.TotalGames = 1
    /\ result = Pending
    /\ moveCount = 0
    /\ Moves = <<>>

\* n cells of a size x size board can be pairwise at Manhattan distance 3 or
\* more: InitGame can place n players without giving up on any
Separable(size, n) ==
    \E ps \in Placements(size, n) : \A i \in DOMAIN ps : ~ps[i].exhausted

\* C14 (invalid grid size): a game is started (InitGame and PlayGame are
\* entered) only with a grid size that is positive and large enough to
\* separate the starting positions of the configured players by Manhattan
\* distance 3.
GridSizeValidated ==
    gameCount > 0 => (gridSize > 0 /\ Separable(gridSize, numPlayers))

\* C15 (apply with an illegal destination): a call of MakeMove changes the
\* board, the visited set, a position or the move log only when the
\* destination is on the board and was not visited at the call; a call with
\* an illegal destination leaves all four as they were.
IllegalMoveNoEffect ==
    [][(pc = "loop" /\ pc' \in {"applied", "panic"}
        /\ <<Grid, Visited, PlayerPos, Moves>>' # <<Grid, Visited, PlayerPos, Moves>>) =>
         \E p \in Players :
            /\ PlayerPos'[p] # PlayerPos[p]
            /\ PlayerPos'[p] \in Cells(gridSize)
            /\ PlayerPos'[p] \notin Visited]_vars

\* the cell next to pos in direction d, and the place of d in the order
\* Up, Down, Left, Right
Neighbor(pos, d) ==
    IF d = Up THEN <<pos[1] - 1, pos[2]>>
    ELSE IF d = Down THEN <<pos[1] + 1, pos[2]>>
    ELSE IF d = Left THEN <<pos[1], pos[2] - 1>>
    ELSE <<pos[1], pos[2] + 1>>

Rank(d) == IF d = Up THEN 1 ELSE IF d = Down THEN 2 ELSE IF d = Left THEN 3 ELSE 4

\* the directions in which a player at pos finds a cell that is on the board
\* and not visited, whoever visited the others
LegalDirs(pos) ==
    {d \in Direction : /\ Neighbor(pos, d)[1] \in 0 .. gridSize - 1
                       /\ Neighbor(pos, d)[2] \in 0 .. gridSize - 1
                       /\ Neighbor(pos, d) \notin Visited}

\* C16 (validMoves): the list of valid moves PlayGame computes at the start
\* of a turn holds exactly the directions whose neighbour of the player's
\* position is in bounds and not in Visited, each once, in the order Up,
\* Down, Left, Right.
ValidMovesExact ==
    [][(pc = "loop" /\ moveCount' = moveCount + 1) =>
         /\ {validMoves'[i] : i \in DOMAIN validMoves'} = LegalDirs(PlayerPos[CurrentPlayer])
         /\ \A i, j \in DOMAIN validMoves' :
               i < j => Rank(validMoves'[i]) < Rank(validMoves'[j])]_vars

\* the 3x3 board with player 1 at (0,0) and player 2 at (2,2): Down, Right
ValidMovesExactWitness ==
    /\ pc = "llm"
    /\ gridSize = 3
    /\ numPlayers = 2
    /\ Moves = <<>>
    /\ PlayerPos["1"] = <<0, 0>>
    /\ PlayerPos["2"] = <<2, 2>>
    /\ TurnPlayer = "1"
    /\ validMoves = <<Down, Right>>

\* C17 (blockedMoves): the keys of the blocked-moves map are exactly the
\* directions that are not valid moves; each has one reason, "out of bounds"
\* when the neighbour is outside the grid and "already visited" otherwise, in
\* which case the neighbour is in Visited.
BlockedMovesExact ==
    pc = "prompted" =>
        LET valid == {validMoves[i] : i \in DOMAIN validMoves}
            pos == PlayerPos[TurnPlayer]
            inside(d) == /\ Neighbor(pos, d)[1] \in 0 .. gridSize - 1
                         /\ Neighbor(pos, d)[2] \in 0 .. gridSize - 1
        IN  /\ valid = LegalDirs(pos)
            /\ DOMAIN blocked \cap valid = {}
            /\ DOMAIN blocked \cup valid = Direction
            /\ \A d \in DOMAIN blocked :
                  IF inside(d)
                  THEN blocked[d] = "already visited" /\ Neighbor(pos, d) \in Visited
                  ELSE blocked[d] = "out of bounds"

\* the 3x3 board after player 1 moved right from (0,0) to (0,1), player 2 at
\* (2,2): Up is out of bounds and Left is already visited
BlockedMovesExactWitness ==
    /\ pc = "prompted"
    /\ gridSize = 3
    /\ Visited = {<<0, 0>>, <<2, 2>>, <<0, 1>>}
    /\ PlayerPos["1"] = <<0, 1>>
    /\ PlayerPos["2"] = <<2, 2>>
    /\ DOMAIN blocked = {Up, Left}
    /\ blocked[Up] = "out of bounds"
    /\ blocked[Left] = "already visited"

\* C18 (oracle only for movers): GetLLMMove is entered, and CallLLM called,
\* only for a player that is active and has a valid move in the state of
\* that turn; a turn that starts with no valid move for its player
\* eliminates that player in one step, without a call of the oracle.
OracleOnlyForMovers ==
    [][/\ pc = "llm" =>
             /\ ActivePlayers[TurnPlayer]
             /\ validMoves # <<>>
             /\ {validMoves[i] : i \in DOMAIN validMoves} = LegalDirs(PlayerPos[TurnPlayer])
       /\ calls' = calls + 1 =>
             /\ pc = "llm"
             /\ ActivePlayers[TurnPlayer]
             /\ LegalDirs(PlayerPos[TurnPlayer]) # {}
       /\ (/\ pc = "loop"
           /\ ActiveCount(ActivePlayers, numPlayers) > 1
           /\ LegalDirs(PlayerPos[CurrentPlayer]) = {}) =>
             /\ pc' = "loop"
             /\ ~ActivePlayers'[CurrentPlayer]
             /\ calls' = calls
             /\ UNCHANGED <<llm, llmErr>>]_vars

\* a player of three has just been eliminated: no list of valid moves, and
\* the call count still the one of the turn before
OracleOnlyForMoversWitness ==
    /\ pc = "loop"
    /\ numPlayers = 3
    /\ moveCount > 0
    /\ validMoves = <<>>
    /\ Cardinality(Eliminated) = 1
    /\ Len(Moves) >= 1
    /\ calls = 1

\* the evaluations in ranked order evals are a permutation of the ones made
\* for moves, in non-increasing order of TotalScore
RankedByScore(evals, moves) ==
    /\ Len(evals) = Len(moves)
    /\ \A i \in DOMAIN moves :
          \E j \in DOMAIN evals :
             evals[j] = evaluateMove(gridSize, Visited, PlayerPos[TurnPlayer], moves[i])
    /\ \A i, j \in DOMAIN evals : i < j => evals[i].TotalScore >= evals[j].TotalScore

\* C19 (rank): the ranked evaluations are a permutation of the candidates'
\* evaluations in non-increasing order of total score, and candidates of equal
\* total score keep the order Up, Down, Left, Right in which they were
\* evaluated.
RankStable ==
    pc = "prompted" =>
        /\ RankedByScore(evaluations, validMoves)
        /\ \A i, j \in DOMAIN evaluations :
              (i < j /\ evaluations[i].TotalScore = evaluations[j].TotalScore) =>
                  Rank(evaluations[i].Direction) < Rank(evaluations[j].Direction)

\* C20 (safety tier): every evaluation gets exactly one of six labels, by the
\* first of these tests that holds: immediate moves = 0, DEATH TRAP; territory
\* >= 20 and immediate moves >= 3, EXCELLENT; territory >= 12 and immediate
\* moves >= 2, GOOD; immediate moves >= 2 and territory >= 6, MODERATE;
\* immediate moves = 1 or territory < 5, RISKY; none of them, DANGEROUS.  No
\* other field of the evaluation has a say.
SafetyTierTotal ==
    pc = "rated" =>
        \A k \in DOMAIN evaluations :
           LET m == evaluations[k].ImmediateMoves
               t == evaluations[k].ReachableTerritory
               level == evaluations[k].SafetyLevel
               death == m = 0
               excellent == ~death /\ t >= 20 /\ m >= 3
               good == ~death /\ ~excellent /\ t >= 12 /\ m >= 2
               moderate == ~death /\ ~excellent /\ ~good /\ m >= 2 /\ t >= 6
               risky == ~death /\ ~excellent /\ ~good /\ ~moderate /\ (m = 1 \/ t < 5)
           IN  /\ level \in {"DEATH TRAP", "EXCELLENT", "GOOD", "MODERATE", "RISKY",
                             "DANGEROUS"}
               /\ death <=> level = "DEATH TRAP"
               /\ excellent <=> level = "EXCELLENT"
               /\ good <=> level = "GOOD"
               /\ moderate <=> level = "MODERATE"
               /\ risky <=> level = "RISKY"
               /\ (~death /\ ~excellent /\ ~good /\ ~moderate /\ ~risky)
                     <=> level = "DANGEROUS"

\* two immediate moves and a territory of 5: DANGEROUS, whatever the score
SafetyTierTotalWitness ==
    /\ pc = "rated"
    /\ evaluations[1].ImmediateMoves = 2
    /\ evaluations[1].ReachableTerritory = 5
    /\ evaluations[1].TotalScore > 0
    /\ evaluations[1].SafetyLevel = "DANGEROUS"

\* C21 (score monotonicity): an evaluation that differs from another only in
\* a greater ImmediateMoves, or only in a greater ReachableTerritory, or only
\* in a greater AvgDepthMobility, has a TotalScore that is not smaller.
ScoreMonotone ==
    pc = "compared" =>
        /\ \E count \in Counts :
              /\ evaluations[2][count] > evaluations[1][count]
              /\ \A f \in DOMAIN evaluations[1] \ {count, "TotalScore"} :
                    evaluations[2][f] = evaluations[1][f]
        /\ evaluations[2].TotalScore >= evaluations[1].TotalScore

\* the deep mobility alone raised, and the score with it
ScoreMonotoneWitness ==
    /\ pc = "compared"
    /\ evaluations[2].AvgDepthMobility > evaluations[1].AvgDepthMobility
    /\ evaluations[2].ImmediateMoves = evaluations[1].ImmediateMoves
    /\ evaluations[2].ReachableTerritory = evaluations[1].ReachableTerritory
    /\ evaluations[2].TotalScore > evaluations[1].TotalScore

\* C22 (statistics recording): main's update after a game adds one to
\* TotalGames whatever the result; for a winner it adds one to that player's
\* win count and changes no other count; for "error" it adds one to Errors
\* only; for a draw it changes neither a win count nor Errors.
StatsRecording ==
    [][pc = "done" =>
         /\ stats'.TotalGames = stats.TotalGames + 1
         /\ result \in Players =>
               /\ stats'.PlayerWins = [stats.PlayerWins EXCEPT ![result] = @ + 1]
               /\ stats'.Errors = stats.Errors
         /\ result = ErrorResult =>
               /\ stats'.PlayerWins = stats.PlayerWins
               /\ stats'.Errors = stats.Errors + 1
         /\ result = Draw =>
               /\ stats'.PlayerWins = stats.PlayerWins
               /\ stats'.Errors = stats.Errors]_vars

\* a win of player 2 recorded after a win of player 1 and an error
StatsRecordingWitness ==
    /\ pc = "main"
    /\ result = "2"
    /\ stats.PlayerWins["1"] = 1
    /\ stats.PlayerWins["2"] = 1
    /\ stats.PlayerWins["3"] = 0
    /\ stats.Errors = 1
    /\ stats.TotalGames = 3

\* the cells connected to the cells of S by steps to adjacent cells of the
\* board that are not in sim
RECURSIVE Component(_, _, _)
Component(size, sim, S) ==
    LET T == S \cup {n \in Cells(size) \ sim : \E c \in S : Manhattan(c, n) = 1}
    IN  IF T = S THEN S ELSE Component(size, sim, T)

\* C23 (reachable territory): the ReachableTerritory of every candidate is the
\* number of cells in the connected component of newPos, that is newPos and
\* the cells reached from it by steps between adjacent cells outside the
\* simulated visited set (Visited plus newPos), and it is at most size * size.
TerritoryIsComponent ==
    pc = "prompted" =>
        \A i \in DOMAIN evaluations :
            LET e == evaluations[i]
            IN  /\ e.ReachableTerritory =
                       Cardinality(Component(gridSize, Visited \cup {e.NewPos}, {e.NewPos}))
                /\ e.ReachableTerritory <= gridSize * gridSize

\* a candidate whose component has several cells and leaves out a free cell
TerritoryIsComponentWitness ==
    /\ pc = "prompted"
    /\ \E i \in DOMAIN evaluations :
          /\ evaluations[i].ReachableTerritory >= 3
          /\ evaluations[i].ReachableTerritory
                 < Cardinality(Cells(gridSize) \ Visited)

\* the legal positions next to p: on the board and not in sim
Legal(size, sim, p) == {n \in Cells(size) \ sim : Manhattan(p, n) = 1}

\* the mobility at n, counted against sim with n added
Mobility(size, sim, n) == Cardinality(Legal(size, sim \cup {n}, n))

\* the sum of f over S
RECURSIVE Total(_, _)
Total(f, S) ==
    IF S = {} THEN 0
    ELSE LET x == CHOOSE y \in S : TRUE
         IN  f[x] + Total(f, S \ {x})

\* 288 times the average over the legal n next to newPos of
\* mobility(n) + 0.5 * (the average over the legal m next to n of mobility(m))
DepthTwoMobility(size, sim, newPos) ==
    LET first == Legal(size, sim, newPos)
        deeper(n) ==
            LET simn == sim \cup {n}
                second == Legal(size, simn, n)
            IN  IF second = {} THEN 0
                ELSE (144 * Total([m \in second |-> Mobility(size, simn, m)], second))
                         \div Cardinality(second)
    IN  IF first = {} THEN 0
        ELSE Total([n \in first |-> 288 * Mobility(size, sim, n) + deeper(n)], first)
                 \div Cardinality(first)

\* C24 (depth mobility, D = 2): the AvgDepthMobility of every candidate is the
\* average over the legal positions n next to newPos in the simulation of
\* mobility(n) plus half the average over the legal positions m next to n of
\* mobility(m), each mobility counted with the stepped-to position added; it
\* is 0 when newPos has no legal neighbour, and an n without a legal
\* continuation adds only its own mobility, which is 0.
DepthMobilityFormula ==
    pc = "prompted" =>
        \A i \in DOMAIN evaluations :
            LET e == evaluations[i]
                sim == Visited \cup {e.NewPos}
                first == Legal(gridSize, sim, e.NewPos)
            IN  /\ e.AvgDepthMobility = DepthTwoMobility(gridSize, sim, e.NewPos)
                /\ first = {} => e.AvgDepthMobility = 0
                /\ (\A n \in first : Legal(gridSize, sim \cup {n}, n) = {})
                       => e.AvgDepthMobility = 0

\* a candidate with a dead end and a branch that goes on next to newPos
DepthMobilityFormulaWitness ==
    /\ pc = "prompted"
    /\ \E i \in DOMAIN evaluations :
          LET e == evaluations[i]
              sim == Visited \cup {e.NewPos}
              first == Legal(gridSize, sim, e.NewPos)
          IN  /\ \E n \in first : Legal(gridSize, sim \cup {n}, n) = {}
              /\ \E n \in first : \E m \in Legal(gridSize, sim \cup {n}, n) :
                    Mobility(gridSize, sim \cup {n}, m) > 0
              /\ e.AvgDepthMobility > 0

\* the mirror image of pos through the center of the size x size grid
Mirror(size, pos) == <<size - 1 - pos[1], size - 1 - pos[2]>>

\* C25 (center distance): the DistanceFromCenter of a candidate is the squared
\* distance from newPos to the geometric center of the grid, so a cell and its
\* mirror image through the center, (r, c) and (size-1-r, size-1-c), are at
\* the same distance and get the same center term of the score, and that
\* term, (size * size - distance) / (size * size), lies between 0 and 1.
CenterDistanceMirrored ==
    pc = "prompted" =>
        \A i \in DOMAIN evaluations :
            LET e == evaluations[i]
                size == gridSize
                mirrored == calculateDistance(Mirror(size, e.NewPos)[1],
                                              Mirror(size, e.NewPos)[2], size)
            IN  /\ e.DistanceFromCenter = mirrored
                /\ 4 * size * size - e.DistanceFromCenter
                       = 4 * size * size - mirrored
                /\ 4 * size * size - e.DistanceFromCenter >= 0
                /\ 4 * size * size - e.DistanceFromCenter <= 4 * size * size

\* C26 (elimination frame): the step taken for a current player without a
\* valid move clears that player's Active flag and advances the rotation to
\* the slot after that player; it records no move and leaves the Board (the
\* eliminated player's head marker included), Visited, every PlayerPos, the
\* Move log and the other Active flags unchanged, and the game goes on.
EliminationFrame ==
    [][(/\ pc = "loop"
        /\ ActiveCount(ActivePlayers, numPlayers) > 1
        /\ GetValidMoves(gridSize, Visited, PlayerPos[CurrentPlayer]) = <<>>)
       => (/\ ActivePlayers[CurrentPlayer]
           /\ ActivePlayers' = [ActivePlayers EXCEPT ![CurrentPlayer] = FALSE]
           /\ currentPlayerIndex' = PlayerIndex(CurrentPlayer) % numPlayers
           /\ Grid' = Grid
           /\ Visited' = Visited
           /\ PlayerPos' = PlayerPos
           /\ Moves' = Moves
           /\ result' = result
           /\ pc' = "loop")]_vars

\* a game of three that goes on after an elimination, the eliminated player's
\* head still on the board
EliminationFrameWitness ==
    /\ pc = "loop"
    /\ numPlayers = 3
    /\ ActiveCount(ActivePlayers, numPlayers) = 2
    /\ \E p \in Players : ~ActivePlayers[p] /\ Grid[PlayerPos[p]] = p
    /\ Len(Moves) >= 2

\* C27 (move effects): the move of the turn's player from its position to the
\* neighbour in the chosen direction makes the old cell that player's trail,
\* the new cell that player's head and position, adds the new cell to
\* Visited, and appends {player, direction, from, to} as the last Move; every
\* other cell, every other player's position, the Active flags and the
\* earlier Moves stay as they were.
MoveEffects ==
    [][(pc = "llm" /\ pc' = "loop")
       => LET p == TurnPlayer
              from == PlayerPos[p]
              to == PlayerPos'[p]
              mv == Moves'[Len(Moves')]
          IN  /\ Len(Moves') = Len(Moves) + 1
              /\ SubSeq(Moves', 1, Len(Moves)) = Moves
              /\ mv.Player = p /\ mv.From = from /\ mv.To = to
              /\ \E i \in DOMAIN validMoves : mv.Direction = validMoves[i]
              /\ to = Neighbor(from, mv.Direction)
              /\ Grid'[from] = TrailChars[PlayerIndex(p)]
              /\ Grid'[to] = p
              /\ \A c \in Cells(gridSize) \ {from, to} : Grid'[c] = Grid[c]
              /\ Visited' = Visited \cup {to}
              /\ to \notin Visited
              /\ \A q \in Players \ {p} : PlayerPos'[q] = PlayerPos[q]
              /\ ActivePlayers' = ActivePlayers]_vars

\* two moves of different players made, the second one's trail and head on
\* the board
MoveEffectsWitness ==
    /\ pc = "loop"
    /\ Len(Moves) = 2
    /\ Moves[1].Player # Moves[2].Player
    /\ Grid[Moves[2].From] = TrailChars[PlayerIndex(Moves[2].Player)]
    /\ Grid[Moves[2].To] = Moves[2].Player
    /\ PlayerPos[Moves[2].Player] = Moves[2].To

\* the slot of the first active player met from slot start on, going up and
\* around
FirstActiveFrom(active, n, start) ==
    LET on == {i \in 0 .. n - 1 : active[PlayerIDs[i + 1]]}
    IN  CHOOSE i \in on : \A j \in on : (i + n - start) % n <= (j + n - start) % n

\* the moves made strictly between moves i and j by player q
MovesBetween(i, j, q) == {k \in i + 1 .. j - 1 : Moves[k].Player = q}

\* between two consecutive moves of a player, every other player still active
\* has moved exactly once, and no move was made by a player out of the game
OneTurnEach ==
    InGame =>
        /\ \A i, j \in DOMAIN Moves :
              (/\ i < j
               /\ Moves[i].Player = Moves[j].Player
               /\ MovesBetween(i, j, Moves[i].Player) = {})
              => \A q \in Players \ {Moves[i].Player} :
                    /\ ActivePlayers[q] => Cardinality(MovesBetween(i, j, q)) = 1
                    /\ Cardinality(MovesBetween(i, j, q)) <= 1
        /\ \A p \in Players :
              ~ActivePlayers[p] => GetValidMoves(gridSize, Visited, PlayerPos[p]) = <<>>

\* a turn is that of the first active player from the rotation slot on, which
\* is 0 after InitGame and the slot after the player of the turn before
RotationStep ==
    /\ (pc = "main" /\ pc' = "loop") => currentPlayerIndex' = 0
    /\ (pc = "loop" /\ ActiveCount(ActivePlayers, numPlayers) > 1)
       => LET t == FirstActiveFrom(ActivePlayers, numPlayers, currentPlayerIndex)
          IN  /\ ActivePlayers[PlayerIDs[t + 1]]
              /\ pc' = "llm" => currentPlayerIndex' = t /\ ActivePlayers' = ActivePlayers
              /\ pc' = "loop" =>
                    /\ ActivePlayers' = [ActivePlayers EXCEPT ![PlayerIDs[t + 1]] = FALSE]
                    /\ currentPlayerIndex' = (t + 1) % numPlayers
              /\ Moves' = Moves
    /\ (pc = "loop" /\ ActiveCount(ActivePlayers, numPlayers) <= 1)
       => pc' = "done" /\ Moves' = Moves /\ ActivePlayers' = ActivePlayers
    /\ (pc = "llm" /\ pc' = "llm") => currentPlayerIndex' = currentPlayerIndex
    /\ (pc = "llm" /\ pc' = "loop")
       => /\ Moves'[Len(Moves')].Player = PlayerIDs[currentPlayerIndex + 1]
          /\ currentPlayerIndex' = (currentPlayerIndex + 1) % numPlayers
          /\ ActivePlayers' = ActivePlayers

\* C28 (turn rotation): the player whose turn is processed is the first active
\* player met scanning the slots cyclically from the slot after the player of
\* the turn before, from slot 0 at the start of a game; so between two
\* consecutive turns of a player every other player still active gets exactly
\* one turn, and a player out of the game gets none.
TurnRotation == [][RotationStep]_vars /\ []OneTurnEach

\* a game of three in which player 1 moved twice, player 3 once in between,
\* and player 2, eliminated, not at all
TurnRotationWitness ==
    /\ pc = "loop"
    /\ numPlayers = 3
    /\ ~ActivePlayers["2"]
    /\ \E i, j \in DOMAIN Moves :
          /\ i < j
          /\ Moves[i].Player = "1" /\ Moves[j].Player = "1"
          /\ \A k \in i + 1 .. j - 1 : Moves[k].Player = "3"
          /\ Cardinality(MovesBetween(i, j, "3")) = 1

\* C29 (initial state): right after InitGame every player is active, every
\* player's starting cell is visited and shows that player's own head marker,
\* every other cell is Empty and not visited, the Move log is empty, and the
\* rotation is at player index 0.
InitialState ==
    (pc = "loop" /\ moveCount = 0) =>
        /\ \A p \in Players : ActivePlayers[p]
        /\ \A p \in Players : PlayerPos[p] \in Visited /\ Grid[PlayerPos[p]] = p
        /\ \A c \in Cells(gridSize) \ {PlayerPos[p] : p \in Players} :
              Grid[c] = Empty /\ c \notin Visited
        /\ Moves = <<>>
        /\ currentPlayerIndex = 0

\* C30 (evaluation leaves the game alone): building the evaluations of all
\* candidates, through simulateMove, countReachableTerritory and
\* calculateDepthMobility at depth 2, leaves the game's Visited, Board,
\* PlayerPos, ActivePlayers and Move log as they were; the candidates' new
\* positions are marked in the copies only.
EvaluationSideEffectFree ==
    [][pc = "prompt"
       => /\ Len(evaluations') = Len(validMoves)
          /\ Visited' = Visited
          /\ Grid' = Grid
          /\ PlayerPos' = PlayerPos
          /\ ActivePlayers' = ActivePlayers
          /\ Moves' = Moves
          /\ \A i \in DOMAIN evaluations' : evaluations'[i].NewPos \notin Visited']_vars

\* several candidates evaluated, one of them with territory and moves two
\* steps ahead, and none of their new positions visited in the game
EvaluationSideEffectFreeWitness ==
    /\ pc = "prompted"
    /\ Len(evaluations) >= 2
    /\ \E i \in DOMAIN evaluations :
          /\ evaluations[i].ReachableTerritory >= 3
          /\ evaluations[i].AvgDepthMobility > 0
    /\ \A i \in DOMAIN evaluations : evaluations[i].NewPos \notin Visited

\* C31 (one new position per move): InitGame leaves the Move log empty, and
\* from then on every step of the game keeps |Visited| - |Moves| at the value
\* it had right after InitGame: a step that appends a Move adds exactly its
\* destination, which was not visited before the step, and no other step
\* changes Visited or the log.
OneNewPositionPerMove ==
    [][/\ (pc = "main" /\ pc' = "loop") => Moves' = <<>>
       /\ (pc \in {"loop", "llm"})
          => (/\ Cardinality(Visited') - Len(Moves') = Cardinality(Visited) - Len(Moves)
              /\ Len(Moves') \in {Len(Moves), Len(Moves) + 1}
              /\ (Len(Moves') > Len(Moves))
                 => (/\ Moves'[Len(Moves')].To \notin Visited
                     /\ Visited' = Visited \cup {Moves'[Len(Moves')].To})
              /\ (Len(Moves') = Len(Moves)) => (Visited' = Visited))]_vars

\* three moves made from two distinct starting cells: five cells visited
OneNewPositionPerMoveWitness ==
    /\ pc = "loop"
    /\ numPlayers = 2
    /\ Len(Moves) = 3
    /\ Cardinality(Visited) = 5
    /\ \A i \in DOMAIN Moves : Moves[i].To \in Visited

\* the records of player p in the Move log, by index
RecordsOf(p) == {i \in DOMAIN Moves : Moves[i].Player = p}

\* the Move log read as paths: each record steps to the neighbour of its From
\* on the board, a player's next record starts where the one before it ended,
\* the last one ends where the player is, and no position is entered twice
LogPaths ==
    InGame =>
        /\ \A i \in DOMAIN Moves :
              /\ Moves[i].To = Neighbor(Moves[i].From, Moves[i].Direction)
              /\ Moves[i].To \in Cells(gridSize)
              /\ Moves[i].Player \in Players
        /\ \A p \in Players : \A i, j \in RecordsOf(p) :
              (i < j /\ \A k \in RecordsOf(p) : ~(i < k /\ k < j))
              => Moves[j].From = Moves[i].To
        /\ \A p \in Players : \A i \in RecordsOf(p) :
              (\A k \in RecordsOf(p) : k <= i) => Moves[i].To = PlayerPos[p]
        /\ \A i, j \in DOMAIN Moves : i # j => Moves[i].To # Moves[j].To

\* a record starts where its player stands, and a player's position changes
\* only by a record of that player; the log is empty when InitGame has put
\* the players on their starting positions
LogStep ==
    /\ (pc = "main" /\ pc' = "loop") => Moves' = <<>>
    /\ (pc \in {"loop", "llm"})
       => (/\ (Len(Moves') > Len(Moves))
              => (/\ Len(Moves') = Len(Moves) + 1
                  /\ Moves'[Len(Moves')].From = PlayerPos[Moves'[Len(Moves')].Player])
           /\ \A p \in Players :
                 (PlayerPos'[p] # PlayerPos[p])
                 => (Len(Moves') > Len(Moves) /\ Moves'[Len(Moves')].Player = p))

\* C32 (move-log paths): each player's Move records, in log order, form a
\* connected path from the player's starting position (where the player still
\* stands when its first record is made) to its current position, each To the
\* neighbour of From on the board in the recorded Direction, and no position
\* is the To of two records.
MoveLogPaths == [][LogStep]_vars /\ []LogPaths

\* a player with two records, the second starting where the first ended and
\* ending where the player stands, another player's record between them
MoveLogPathsWitness ==
    /\ pc = "loop"
    /\ \E i, j \in DOMAIN Moves :
          /\ i + 1 < j
          /\ Moves[i].Player = Moves[j].Player
          /\ Moves[i + 1].Player # Moves[i].Player
          /\ Moves[j].From = Moves[i].To
          /\ PlayerPos[Moves[j].Player] = Moves[j].To

\* C33 (eliminated is terminal): within a game, a player whose Active flag is
\* false stays inactive, is the player of no Move appended afterwards, and
\* keeps its PlayerPos.
EliminatedTerminal ==
    [][(pc \in {"loop", "llm"})
       => \A p \in Players :
             ~ActivePlayers[p]
             => (/\ ~ActivePlayers'[p]
                 /\ PlayerPos'[p] = PlayerPos[p]
                 /\ (Len(Moves') > Len(Moves)) => (Moves'[Len(Moves')].Player # p)
                 /\ RecordsOf(p)' = RecordsOf(p))]_vars

\* a game of three in which the other two have moved since a player was
\* eliminated on its starting position
EliminatedTerminalWitness ==
    /\ pc = "loop"
    /\ numPlayers = 3
    /\ \E p \in Players :
          /\ ~ActivePlayers[p]
          /\ RecordsOf(p) = {}
          /\ \A q \in Players \ {p} : ActivePlayers[q] /\ Cardinality(RecordsOf(q)) >= 2

\* the valid moves of player p as a set
ValidSet(p) ==
    LET moves == GetValidMoves(gridSize, Visited, PlayerPos[p])
    IN  {moves[i] : i \in DOMAIN moves}

\* C34 (valid moves only shrink): over a step of the game in which player p
\* does not move, the valid moves of p after the step are among those before
\* it; so a player without a valid move never gets one back, and every
\* player that was eliminated is still without a valid move.
ValidMovesShrink ==
    /\ [][(pc \in {"loop", "llm"})
          => \A p \in Players :
                (PlayerPos'[p] = PlayerPos[p])
                => (/\ ValidSet(p)' \subseteq ValidSet(p)
                    /\ (ValidSet(p) = {}) => (ValidSet(p)' = {}))]_vars
    /\ [](InGame => \A p \in Players : ~ActivePlayers[p] => ValidSet(p) = {})

\* an active player that has stood still while another player entered a cell
\* next to it
ValidMovesShrinkWitness ==
    /\ pc = "loop"
    /\ \E p \in Players : \E i \in DOMAIN Moves :
          /\ ActivePlayers[p]
          /\ Moves[i].Player # p
          /\ Manhattan(Moves[i].To, PlayerPos[p]) = 1
          /\ \A k \in DOMAIN Moves : k > i => Moves[k].Player # p
          /\ Cardinality(ValidSet(p)) >= 1

\* C35 (death traps rank last): among the evaluations of one turn, every
\* candidate labelled DEATH TRAP has a total score strictly below that of
\* every candidate with another label, and stands after it in the ranking.
DeathTrapsLast ==
    pc = "prompted" =>
        \A i, j \in DOMAIN evaluations :
            (/\ evaluations[i].SafetyLevel = "DEATH TRAP"
             /\ evaluations[j].SafetyLevel # "DEATH TRAP")
            => (/\ evaluations[i].TotalScore < evaluations[j].TotalScore
                /\ j < i)

\* a ranking with a DEATH TRAP at a cell nearer the center than a candidate
\* that is none
DeathTrapsLastWitness ==
    /\ pc = "prompted"
    /\ \E i, j \in DOMAIN evaluations :
          /\ evaluations[i].SafetyLevel = "DEATH TRAP"
          /\ evaluations[i].ImmediateMoves = 0
          /\ evaluations[j].SafetyLevel # "DEATH TRAP"
          /\ evaluations[i].DistanceFromCenter < evaluations[j].DistanceFromCenter

\* C36 (territory bounds): every evaluation has a reachable territory of at
\* least 1 plus its immediate moves and at most size * size - |Visited|; the
\* territory is 1 exactly when there is no immediate move, and then the depth
\* mobility is 0 as well.
TerritoryBounds ==
    pc = "prompted" =>
        \A i \in DOMAIN evaluations :
            LET e == evaluations[i]
            IN  /\ e.ReachableTerritory >= 1 + e.ImmediateMoves
                /\ e.ReachableTerritory <= gridSize * gridSize - Cardinality(Visited)
                /\ e.ReachableTerritory = 1 <=> e.ImmediateMoves = 0
                /\ e.ImmediateMoves = 0 => e.AvgDepthMobility = 0

\* a ranking with a candidate that has no way on, and one that has two ways
\* on and reaches every other free cell
TerritoryBoundsWitness ==
    /\ pc = "prompted"
    /\ \E i, j \in DOMAIN evaluations :
          /\ evaluations[i].ReachableTerritory
                 = gridSize * gridSize - Cardinality(Visited) - 1
          /\ evaluations[i].ImmediateMoves = 2
          /\ evaluations[i].ReachableTerritory > 3
          /\ evaluations[j].ReachableTerritory = 1
          /\ evaluations[j].ImmediateMoves = 0

\* C37 (simulation agrees with execution): when MakeMove applies a valid
\* direction d for a player, the ImmediateMoves that evaluateMove gives for d
\* on the state before the move is the number of valid moves GetValidMoves
\* gives for that player on the state right after it, and it is at most 3.
SimulationAgrees ==
    [][(pc = "llm" /\ pc' = "loop")
       => LET p == TurnPlayer
              d == Moves'[Len(Moves')].Direction
              e == evaluateMove(gridSize, Visited, PlayerPos[p], d)
          IN  /\ \E i \in DOMAIN validMoves : validMoves[i] = d
              /\ e.NewPos = PlayerPos'[p]
              /\ e.ImmediateMoves = Len(GetValidMoves(gridSize, Visited', PlayerPos'[p]))
              /\ e.ImmediateMoves <= 3]_vars

\* a move has just been made and has left its player two valid moves, with
\* a visited cell of another player next to it
SimulationAgreesWitness ==
    /\ pc = "loop"
    /\ Len(Moves) >= 2
    /\ LET last == Moves[Len(Moves)]
       IN  /\ PlayerPos[last.Player] = last.To
           /\ Len(GetValidMoves(gridSize, Visited, last.To)) = 2
           /\ \E c \in Visited : Manhattan(c, last.To) = 1 /\ last.Player \notin owners[c]

\* somebody has been eliminated and PlayGame is back at the top of its loop:
\* with two players the winner is settled
Settled == pc = "loop" /\ \E p \in Players : ~ActivePlayers[p]

\* the state of the N-player program with two players, read as a state of
\* the two-player program
AsTwoPlayer ==
    [Size |-> gridSize,
     Player1Pos |-> PlayerPos[Player1],
     Player2Pos |-> PlayerPos[Player2],
     Visited |-> Visited,
     Moves |-> Moves,
     currentPlayer |-> IF pc = "done" \/ Settled THEN Nil ELSE PlayerIDs[currentPlayerIndex + 1],
     validMoves |-> IF pc = "llm" THEN validMoves ELSE <<>>,
     retry |-> IF pc = "llm" THEN retry ELSE 0,
     prompt |-> IF pc = "llm" THEN prompt ELSE <<>>,
     pc |-> IF Settled THEN "done" ELSE pc,
     result |-> IF Settled THEN CHOOSE p \in Players : ActivePlayers[p] ELSE result]

\* every step of the N-player game is the step the two-player program takes
\* on the same oracle result, or, where the N-player program only finds out
\* that one player is left, no step at all
TwoPlayerStep ==
    /\ (pc = "main" /\ pc' = "loop")
       => AsTwoPlayer' = TwoInitGame(gridSize, PlayerPos'[Player1], PlayerPos'[Player2])
    /\ (pc = "loop" /\ Settled) => AsTwoPlayer' = AsTwoPlayer
    /\ (pc = "loop" /\ ~Settled) => AsTwoPlayer' = TwoStep(AsTwoPlayer)
    /\ (pc = "llm" /\ ~MayCall(retry, maxRetries)) => AsTwoPlayer' = TwoStep(AsTwoPlayer)
    /\ (pc = "llm" /\ MayCall(retry, maxRetries))
       => (/\ calls' = calls + 1
           /\ AsTwoPlayer' = TwoCallLLM(AsTwoPlayer, response', llmErr'))

\* C38 (N-player program with two players = two-player program): from the
\* same starting positions and on the same oracle results, the two programs
\* go through the same game states, so they make the same moves and return
\* the same winner or "error"; neither stops while the other goes on.
TwoPlayerEquivalence ==
    /\ [][numPlayers = 2 => TwoPlayerStep]_vars
    /\ []((numPlayers = 2 /\ pc \in {"loop", "llm"}) => ENABLED Next)
    /\ []((numPlayers = 2 /\ pc = "done") => AsTwoPlayer.result \in {Player1, Player2, ErrorResult})

\* a game of two won by player 1 after both have moved
TwoPlayerEquivalenceWitness ==
    /\ numPlayers = 2
    /\ pc = "done"
    /\ result = Player1
    /\ \E i, j \in DOMAIN Moves : Moves[i].Player = Player1 /\ Moves[j].Player = Player2
    /\ Len(Moves) >= 3

\* C39 (statistics conservation): across the games of a run the win counts
\* of all players and the error count add up to TotalGames, no id outside the
\* configured players has a win, and the statistics change only between
\* games, when a game has returned its result.
StatsConserved ==
    /\ [](/\ SumWins(stats.PlayerWins, DOMAIN stats.PlayerWins) + stats.Errors
                = stats.TotalGames
          /\ \A id \in DOMAIN stats.PlayerWins : id \notin Players => stats.PlayerWins[id] = 0
          /\ stats.TotalGames <= gameCount)
    /\ [][stats' # stats => (pc = "done" /\ pc' = "main")]_vars

\* two games recorded: a win and an error
StatsConservedWitness ==
    /\ pc = "main"
    /\ stats.TotalGames = 2
    /\ stats.Errors = 1
    /\ SumWins(stats.PlayerWins, Players) = 1

\* C40 (bounded oracle use): in a turn GetLLMMove calls the oracle at most
\* maxRetries times; every call but the first follows a response that
\* ParseDirection rejected; with maxRetries 0 (or less) there is no call at
\* all, and the first turn that needs a move ends the game with "error".
BoundedOracleUse ==
    /\ [](InGame => calls <= maxRetries)
    /\ []((pc = "llm" /\ calls > 0)
          => (parsed.err # Nil /\ llmErr = Nil /\ calls = retry /\ Len(prompt) = calls))
    /\ [][(calls' = calls + 1) => (pc = "llm" /\ retry < maxRetries /\ calls < maxRetries)]_vars
    /\ [][(maxRetries <= 0 /\ pc = "llm")
          => (pc' = "done" /\ result' = ErrorResult /\ calls' = 0 /\ Moves' = Moves)]_vars

\* a turn that used up two calls, both rejected, and ended the game
BoundedOracleUseWitness ==
    /\ pc = "done"
    /\ result = ErrorResult
    /\ maxRetries = 2
    /\ calls = 2
    /\ retry = 2
    /\ llmErr = Nil
    /\ Len(prompt) = 2

====
